---- MODULE Spec2Model ----
(***************************************************************************)
(* react-exe: the execution pipeline of src/src/index.tsx (executeCode)    *)
(* and the dependency resolver / module loader of src/src/utils/index.ts.  *)
(*                                                                         *)
(* Source text is modelled by its structure: a file's content is a         *)
(* sequence of statements, a file name or import specifier is a record     *)
(* (prefix, base, extension), a URL is a record (scheme, host labels).     *)
(* Regular expressions act on that structure the way the source's          *)
(* patterns act on the text.                                               *)
(***************************************************************************)
EXTENDS Integers, Sequences, FiniteSets, TLC

\* JS null / undefined where a record value is expected
Null == [kind |-> "null"]

\* number of executeCode passes the model starts
MaxPasses == 2

Passes == 1..MaxPasses

(***************************************************************************)
(* Names, specifiers, URLs                                                 *)
(***************************************************************************)
Nm(pre, base, ext) == [pre |-> pre, base |-> base, ext |-> ext]

JsExts == {"js", "jsx", "ts", "tsx"}

\* filename.replace(/\.(js|jsx|ts|tsx)$/, "").replace(/^\.\//, "")
normalizeFilename(n) ==
    [pre  |-> IF n.pre = "./" THEN "" ELSE n.pre,
     base |-> n.base,
     ext  |-> IF n.ext \in JsExts THEN "" ELSE n.ext]

REACT  == Nm("", "react", "")
LODASH == Nm("", "lodash", "")
ZOD    == Nm("", "zod", "")
UTIL   == Nm("./", "util", "")
\* '@scope/sub' and the dependency key '@scope/*': the prefix holds the scope
SCOPE_SUB == Nm("@scope/", "sub", "")
SCOPE_ALL == Nm("@scope/", "*", "")

\* a URL string: scheme and host labels ("esm.sh" is <<"esm","sh">>);
\* host = <<>> is a string that starts with "http" but is no valid URL
Url(host, path) == [scheme |-> "http", host |-> host, path |-> path]

U_LODASH == Url(<<"esm", "sh">>, "lodash")
U_ZOD    == Url(<<"esm", "sh">>, "zod")
U_SUB    == Url(<<"cdn", "esm", "sh">>, "lib")
U_EVIL   == Url(<<"evil", "com">>, "lib")
U_LOOK   == Url(<<"evilesm", "sh">>, "lib")
U_BAD    == Url(<<>>, "lib")

Urls == {U_LODASH, U_ZOD, U_SUB, U_EVIL, U_LOOK, U_BAD}

\* typeof value === 'string' && value.startsWith('http')
IsUrlString(v) == v \in Urls

\* allowedDomains lists: the default, and one a caller widened
\* ['esm.sh', 'cdn.skypack.dev', 'unpkg.com', 'jspm.dev']
DefaultDomains == << <<"esm", "sh">>, <<"cdn", "skypack", "dev">>, <<"unpkg", "com">>,
                     <<"jspm", "dev">> >>
WideDomains    == << <<"esm", "sh">>, <<"evil", "com">> >>

\* s.endsWith(t) on label sequences
EndsWith(s, t) ==
    /\ Len(t) <= Len(s)
    /\ \A i \in 1..Len(t) : s[Len(s) - Len(t) + i] = t[i]

\* urlObj.hostname === domain || urlObj.hostname.endsWith('.' + domain)
HostAllowed(host, domain) ==
    \/ host = domain
    \/ (Len(host) > Len(domain) /\ EndsWith(host, domain))

\* new URL(url) succeeds and some allowed domain admits the host
DomainOk(url, allowedDomains) ==
    /\ url.host # <<>>
    /\ \E i \in 1..Len(allowedDomains) : HostAllowed(url.host, allowedDomains[i])

(***************************************************************************)
(* Error messages                                                          *)
(***************************************************************************)
ForbiddenMsg(fileName, pat) ==
    [kind |-> "Forbidden code pattern detected in", file |-> fileName, pattern |-> pat]

InvalidUrlMsg(url) == [kind |-> "Invalid URL or domain not allowed", url |-> url]

LoadFailedMsg(url) == [kind |-> "Failed to load module from", url |-> url]

ManualFailMsg(key, url, m) ==
    [kind |-> "Failed to load manual dependency", key |-> key, url |-> url, inner |-> m]

ModuleNotFoundMsg(source) == [kind |-> "Module not found", source |-> source]

\* thrown by the parse/transform front end for a file it cannot parse
SyntaxErrorMsg(fileName) == [kind |-> "SyntaxError", file |-> fileName]

\* thrown by new Function(transformedCode) when the generated text does not compile
CompileErrorMsg == [kind |-> "Cannot use import statement outside a module"]

(***************************************************************************)
(* Source files                                                            *)
(*   a statement is [k, spec, nb, tok, id]:                                *)
(*     "import"    import <nb bindings> from '<spec>'  (nb = 0: bare)      *)
(*     "require"   require('<spec>')                                       *)
(*     "text"      other code whose text is <tok>                          *)
(*     "defaultFn" export default function <tok>() {...}                   *)
(*     "namedFn"   export function <tok>() {...}                           *)
(*     "namedJsx"  export const <tok> = () => <div/>  (a function whose    *)
(*                 text holds React.createElement)                         *)
(*     "namedConst" export const <tok> = 1                                 *)
(*     "defaultConst" const <tok> = 1; export default <tok>                *)
(*     "localFn"   function <tok>() {...}  (not exported)                  *)
(*     "throw"     a top-level statement that throws when evaluated        *)
(*     "syntax"    text the parse/transform front end rejects              *)
(*     "defaultFnNested" export default function <tok>(cb = () => 1) {...} *)
(*                 (a parameter list that holds a closing parenthesis)     *)
(*     "exportAs"  export { <id> as <tok> }  (id = tok: no alias)          *)
(*   an "import" with id # "" is  import { <id> } from '<spec>', or with   *)
(*   tok = "namespace"  import * as <id> from '<spec>'                     *)
(***************************************************************************)
NoName == Nm("", "", "")

Import(spec, nb) == [k |-> "import", spec |-> spec, nb |-> nb, tok |-> "import", id |-> ""]
Require(spec)    == [k |-> "require", spec |-> spec, nb |-> 0, tok |-> "require", id |-> ""]
Text(tok)        == [k |-> "text", spec |-> NoName, nb |-> 0, tok |-> tok, id |-> ""]
DefaultFn(name)  == [k |-> "defaultFn", spec |-> NoName, nb |-> 0, tok |-> name, id |-> ""]
NamedFn(name)    == [k |-> "namedFn", spec |-> NoName, nb |-> 0, tok |-> name, id |-> ""]
NamedJsx(name)   == [k |-> "namedJsx", spec |-> NoName, nb |-> 0, tok |-> name, id |-> ""]
NamedConst(name) == [k |-> "namedConst", spec |-> NoName, nb |-> 0, tok |-> name, id |-> ""]
DefaultConst(name) == [k |-> "defaultConst", spec |-> NoName, nb |-> 0, tok |-> name, id |-> ""]
LocalFn(name)    == [k |-> "localFn", spec |-> NoName, nb |-> 0, tok |-> name, id |-> ""]
Throw            == [k |-> "throw", spec |-> NoName, nb |-> 0, tok |-> "throw", id |-> ""]
Syntax           == [k |-> "syntax", spec |-> NoName, nb |-> 0, tok |-> "syntax", id |-> ""]
DefaultFnNested(name) == [k |-> "defaultFnNested", spec |-> NoName, nb |-> 0, tok |-> name, id |-> ""]
ImportNamed(spec, name) == [k |-> "import", spec |-> spec, nb |-> 1, tok |-> "import", id |-> name]
ImportNamespace(spec, name) == [k |-> "import", spec |-> spec, nb |-> 1, tok |-> "namespace", id |-> name]
ExportAs(local, name) == [k |-> "exportAs", spec |-> NoName, nb |-> 0, tok |-> name, id |-> local]

File(name, content, isEntry) == [name |-> name, content |-> content, isEntry |-> isEntry]

APP_TSX   == Nm("", "App", "tsx")
UTIL_TS   == Nm("", "util", "ts")
LODASH_TS == Nm("", "lodash", "ts")

(***************************************************************************)
(* Security scan (executeCode, src/src/index.tsx:126-139)                  *)
(*   a pattern is [id, tok, global]; a global (or sticky) RegExp keeps     *)
(*   lastIndex between calls of test().                                    *)
(***************************************************************************)
Pattern(id, tok, global) == [id |-> id, tok |-> tok, global |-> global]

\* defaultSecurityPatterns (two of its six entries): flags "i" only
P_COOKIE == Pattern("/document\\.cookie/i", "document.cookie", FALSE)
P_EVAL   == Pattern("/eval\\(/i", "eval(", FALSE)
\* a caller-supplied pattern with the "g" flag
G_COOKIE == Pattern("/document\\.cookie/g", "document.cookie", TRUE)

defaultSecurityPatterns == <<P_COOKIE, P_EVAL>>

PatternIds == {P_COOKIE.id, P_EVAL.id, G_COOKIE.id}

SetMin(S) == CHOOSE x \in S : \A y \in S : x <= y

\* pattern.test(content) with the pattern's lastIndex = li:
\* the search starts at lastIndex for a global pattern, at 0 otherwise;
\* a global pattern stores the end of the match, or 0 on failure
RegExpTest(pat, content, li) ==
    LET from == IF pat.global THEN li ELSE 0
        ms   == {i \in 1..Len(content) : i > from /\ content[i].tok = pat.tok}
    IN  [found |-> ms # {},
         li    |-> IF ~pat.global THEN li
                   ELSE IF ms # {} THEN SetMin(ms) ELSE 0]

\* for (file of codeFiles) for (pattern of securityPatterns) if (pattern.test(...)) return
RECURSIVE ScanFrom(_, _, _, _, _)
ScanFrom(codeFiles, patterns, f, j, li) ==
    IF f > Len(codeFiles)
    THEN [hit |-> FALSE, file |-> 0, pat |-> 0, li |-> li]
    ELSE IF j > Len(patterns)
    THEN ScanFrom(codeFiles, patterns, f + 1, 1, li)
    ELSE LET t   == RegExpTest(patterns[j], codeFiles[f].content, li[patterns[j].id])
             li2 == [li EXCEPT ![patterns[j].id] = t.li]
         IN  IF t.found
             THEN [hit |-> TRUE, file |-> f, pat |-> j, li |-> li2]
             ELSE ScanFrom(codeFiles, patterns, f, j + 1, li2)

\* the scan runs although the bypass flag is set
SecurityCheck_IgnoreBypass(codeFiles, patterns, bypassSecurity, li) ==
    ScanFrom(codeFiles, patterns, 1, 1, li)

\* if (!bypassSecurity) { ...scan... }
SecurityCheck(codeFiles, patterns, bypassSecurity, li) ==
    IF bypassSecurity
    THEN [hit |-> FALSE, file |-> 0, pat |-> 0, li |-> li]
    ELSE ScanFrom(codeFiles, patterns, 1, 1, li)

(***************************************************************************)
(* Maps (JS objects and Maps) are functions on the set of their keys       *)
(***************************************************************************)
EmptyMap == [x \in {} |-> Null]

Put(m, k, v) == [x \in DOMAIN m \cup {k} |-> IF x = k THEN v ELSE m[x]]

Remove(m, k) == [x \in DOMAIN m \ {k} |-> m[x]]

\* { ...a, ...b }
Spread(a, b) == [x \in DOMAIN a \cup DOMAIN b |-> IF x \in DOMAIN b THEN b[x] ELSE a[x]]

\* values: caller-supplied objects and loaded module namespaces
NoUrl == Url(<<>>, "")

Obj(id) == [kind |-> "object", id |-> id, url |-> NoUrl, load |-> 0]

\* the module produced by the load-th load of the loader; load = 0 is a
\* value the caller put into its external cache itself
Mod(url, load) == [kind |-> "module", id |-> "", url |-> url, load |-> load]

(***************************************************************************)
(* Import detection and the registry (src/src/utils/index.ts:247-336)      *)
(***************************************************************************)
\* !moduleName.startsWith('.') && !moduleName.startsWith('/')
IsBare(spec) == spec.pre \notin {"./", "../", "/"}

AppendNew(seq, x) == IF \E i \in 1..Len(seq) : seq[i] = x THEN seq ELSE Append(seq, x)

\* one importPatterns entry run over one file: kinds is the statement kinds it matches
RECURSIVE DetectIn(_, _, _, _)
DetectIn(content, kinds, i, acc) ==
    IF i > Len(content) THEN acc
    ELSE DetectIn(content, kinds, i + 1,
                  IF content[i].k \in kinds /\ IsBare(content[i].spec)
                  THEN AppendNew(acc, content[i].spec) ELSE acc)

\* detectImports: the Set of bare specifiers, in insertion order
RECURSIVE detectImports(_, _, _)
detectImports(codeFiles, f, acc) ==
    IF f > Len(codeFiles) THEN acc
    ELSE detectImports(codeFiles, f + 1,
             DetectIn(codeFiles[f].content, {"require"}, 1,
                 DetectIn(codeFiles[f].content, {"import"}, 1, acc)))

POPULAR_DEPENDENCIES == (LODASH :> U_LODASH) @@ (ZOD :> U_ZOD)

\* the built-in table is left out
dependencyRegistry_CustomOnly(customDependencyRegistry) == customDependencyRegistry

\* { ...POPULAR_DEPENDENCIES, ...customDependencyRegistry }
dependencyRegistry(customDependencyRegistry) ==
    Spread(POPULAR_DEPENDENCIES, customDependencyRegistry)

\* the [key, url] entries resolveAutoDependencies loads: detected and in the registry
RECURSIVE AutoEntries(_, _, _, _)
AutoEntries(imports, registry, i, acc) ==
    IF i > Len(imports) THEN acc
    ELSE AutoEntries(imports, registry, i + 1,
             IF imports[i] \in DOMAIN registry
             THEN Append(acc, [key |-> imports[i], url |-> registry[imports[i]]])
             ELSE acc)

(***************************************************************************)
(* ModuleLoader.loadModule up to its first await                           *)
(*   (src/src/utils/index.ts:34-70)                                        *)
(*   c: ModuleLoader.cache, lp: ModuleLoader.loadingPromises,              *)
(*   lds: every loadModuleInternal started so far, xc: the external caches *)
(***************************************************************************)
NoExt == "none"

Outcome(out, val, load, lp, lds) ==
    [out |-> out, val |-> val, load |-> load, lp |-> lp, loads |-> lds]

StartLoad(url, ext, lp, lds) ==
    Outcome("wait", Null, Len(lds) + 1, Put(lp, url, Len(lds) + 1),
            Append(lds, [url |-> url, ext |-> ext, status |-> "pending"]))

\* the in-flight map is not consulted
loadModule_NoInflight(url, allowedDomains, ext, c, lp, lds, xc) ==
    IF ext # NoExt /\ url \in DOMAIN xc[ext] THEN Outcome("value", xc[ext][url], 0, lp, lds)
    ELSE IF url \in DOMAIN c THEN Outcome("value", c[url], 0, lp, lds)
    ELSE IF ~DomainOk(url, allowedDomains) THEN Outcome("reject", InvalidUrlMsg(url), 0, lp, lds)
    ELSE StartLoad(url, ext, lp, lds)

\* the internal cache is not consulted
loadModule_NoCache(url, allowedDomains, ext, c, lp, lds, xc) ==
    IF ext # NoExt /\ url \in DOMAIN xc[ext] THEN Outcome("value", xc[ext][url], 0, lp, lds)
    ELSE IF url \in DOMAIN lp THEN Outcome("wait", Null, lp[url], lp, lds)
    ELSE IF ~DomainOk(url, allowedDomains) THEN Outcome("reject", InvalidUrlMsg(url), 0, lp, lds)
    ELSE StartLoad(url, ext, lp, lds)

loadModule(url, allowedDomains, ext, c, lp, lds, xc) ==
    IF ext # NoExt /\ url \in DOMAIN xc[ext] THEN Outcome("value", xc[ext][url], 0, lp, lds)
    ELSE IF url \in DOMAIN c THEN Outcome("value", c[url], 0, lp, lds)
    ELSE IF url \in DOMAIN lp THEN Outcome("wait", Null, lp[url], lp, lds)
    ELSE IF ~DomainOk(url, allowedDomains) THEN Outcome("reject", InvalidUrlMsg(url), 0, lp, lds)
    ELSE StartLoad(url, ext, lp, lds)

\* one loadModule call as its caller holds it; cached, extHit and started
\* record what the call found
Call(key, url, o, c, lds, ext, xc) ==
    [key |-> key, url |-> url, out |-> o.out, val |-> o.val, load |-> o.load,
     cached  |-> url \in DOMAIN c,
     extHit  |-> ext # NoExt /\ url \in DOMAIN xc[ext],
     started |-> Len(o.loads) > Len(lds)]

\* the loadModule calls of one synchronous loop over entries
RECURSIVE IssueCalls(_, _, _, _, _, _, _, _, _)
IssueCalls(entries, i, allowedDomains, ext, c, xc, lp, lds, calls) ==
    IF i > Len(entries) THEN [calls |-> calls, lp |-> lp, loads |-> lds]
    ELSE LET o == loadModule(entries[i].url, allowedDomains, ext, c, lp, lds, xc)
         IN  IssueCalls(entries, i + 1, allowedDomains, ext, c, xc, o.lp, o.loads,
                        Append(calls, Call(entries[i].key, entries[i].url, o, c, lds, ext, xc)))

\* a call's promise: "pending", "ok" or "failed"
CallState(call, lds) ==
    IF call.out = "value" THEN "ok"
    ELSE IF call.out = "reject" THEN "failed"
    ELSE lds[call.load].status

CallValue(call) == IF call.out = "value" THEN call.val ELSE Mod(call.url, call.load)

CallError(call) == IF call.out = "reject" THEN call.val ELSE LoadFailedMsg(call.url)

(***************************************************************************)
(* processDependencies (src/src/utils/index.ts:340-408)                    *)
(***************************************************************************)
\* the manual entries that are URL strings, in Object.entries order
RECURSIVE ManualUrlEntries(_, _, _)
ManualUrlEntries(manual, i, acc) ==
    IF i > Len(manual) THEN acc
    ELSE ManualUrlEntries(manual, i + 1,
             IF IsUrlString(manual[i].value)
             THEN Append(acc, [key |-> manual[i].key, url |-> manual[i].value])
             ELSE acc)

\* processedDependencies[key] = value for the entries that are no URL strings
RECURSIVE ManualValues(_, _, _)
ManualValues(manual, i, acc) ==
    IF i > Len(manual) THEN acc
    ELSE ManualValues(manual, i + 1,
             IF IsUrlString(manual[i].value) THEN acc
             ELSE Put(acc, manual[i].key, manual[i].value))

\* the .then handlers of settled calls: target[key] = module
RECURSIVE Collect(_, _, _, _)
Collect(calls, lds, i, acc) ==
    IF i > Len(calls) THEN acc
    ELSE Collect(calls, lds, i + 1,
             IF CallState(calls[i], lds) = "ok"
             THEN Put(acc, calls[i].key, CallValue(calls[i])) ELSE acc)

AllSettled(calls, lds) == \A i \in 1..Len(calls) : CallState(calls[i], lds) # "pending"

\* the manual join does not wait for its loads
ManualJoin_NoWait(calls, lds, firstReject) == "resolved"

\* a failed manual load is skipped like a failed auto load
ManualJoin_Swallow(calls, lds, firstReject) ==
    IF AllSettled(calls, lds) THEN "resolved" ELSE "pending"

\* await Promise.all(manualLoadPromises), each promise being
\* loadModule(...).then(...).catch(error => { throw new Error(...) })
ManualJoin(calls, lds, firstReject) ==
    IF firstReject # 0 THEN "rejected"
    ELSE IF \A i \in 1..Len(calls) : CallState(calls[i], lds) = "ok" THEN "resolved"
    ELSE "pending"

\* the auto join does not wait for its loads
AutoJoin_NoWait(calls, lds) == "resolved"

\* a failed auto load rejects the join
AutoJoin_Rethrow(calls, lds) ==
    IF \E i \in 1..Len(calls) : CallState(calls[i], lds) = "failed" THEN "rejected"
    ELSE IF AllSettled(calls, lds) THEN "resolved" ELSE "pending"

\* await Promise.all(loadPromises), each promise being
\* loadModule(...).then(...).catch(error => { console.warn(...) })
AutoJoin(calls, lds) ==
    IF AllSettled(calls, lds) THEN "resolved" ELSE "pending"

\* the auto-detected entries override the manual ones
MergeDependencies_AutoWins(autoDependencies, processedDependencies) ==
    Spread(processedDependencies, autoDependencies)

\* processedDependencies = { ...autoDependencies, ...processedDependencies }
MergeDependencies(autoDependencies, processedDependencies) ==
    Spread(autoDependencies, processedDependencies)

\* index of the first call that is already rejected when the loop ends, or 0
FirstFailed(calls, lds) ==
    IF \E i \in 1..Len(calls) : CallState(calls[i], lds) = "failed"
    THEN SetMin({i \in 1..Len(calls) : CallState(calls[i], lds) = "failed"})
    ELSE 0

\* index of the first call waiting for load, or 0
FirstOn(calls, load) ==
    IF \E i \in 1..Len(calls) : calls[i].out = "wait" /\ calls[i].load = load
    THEN SetMin({i \in 1..Len(calls) : calls[i].out = "wait" /\ calls[i].load = load})
    ELSE 0

(***************************************************************************)
(* transformMultipleFiles (src/src/utils/index.ts:410-810) and the import  *)
(* rewriter (817-1002)                                                     *)
(***************************************************************************)
LocalNames(files) == {normalizeFilename(files[i].name) : i \in 1..Len(files)}

\* an unknown specifier is taken for a dependency
RewriteImport_NoThrow(st, allowedDependencies, files) ==
    IF st.nb = 0 THEN [to |-> "kept", error |-> Null]
    ELSE IF st.spec = REACT THEN [to |-> "React", error |-> Null]
    ELSE IF normalizeFilename(st.spec) \in LocalNames(files)
    THEN [to |-> IF st.tok = "namespace" THEN "dropped" ELSE "getModule", error |-> Null]
    ELSE [to |-> IF st.tok = "namespace" THEN "dropped" ELSE "dependency", error |-> Null]

\* ImportDeclaration visitor: what one import statement is rewritten to.
\* The local and the dependency branch handle ImportDefaultSpecifier and
\* ImportSpecifier only: a namespace specifier adds nothing to newNodes and
\* replaceWithMultiple(newNodes) drops the statement.
RewriteImport(st, allowedDependencies, files) ==
    IF st.nb = 0 THEN [to |-> "kept", error |-> Null]
    ELSE IF st.spec = REACT THEN [to |-> "React", error |-> Null]
    ELSE IF normalizeFilename(st.spec) \in LocalNames(files)
    THEN [to |-> IF st.tok = "namespace" THEN "dropped" ELSE "getModule", error |-> Null]
    ELSE IF st.spec \in allowedDependencies
    THEN [to |-> IF st.tok = "namespace" THEN "dropped" ELSE "dependency", error |-> Null]
    ELSE [to |-> "throw", error |-> ModuleNotFoundMsg(st.spec)]

\* newNodes.length: the const declarations the visitor puts in the place of
\* the statement, one per default or named specifier it handles
newNodes(st, allowedDependencies, files) ==
    IF RewriteImport(st, allowedDependencies, files).to \in {"React", "getModule", "dependency"}
          /\ st.tok # "namespace"
    THEN st.nb ELSE 0

\* removeDefaultExport(input): the declaration pattern
\*   export default (async )?function <id> ( [^)]* ) (: type)? { [^}]* }
\* is tried first; a parameter list that holds ")" does not match it.  Then
\* the identifier pattern  export default <word>  is tried on the whole
\* input, and <word> is the keyword "function" in front of a declaration.
\* exportedName is "" for null; parses tells whether what is left of the
\* input is still a program (a declaration whose "export default function"
\* was cut off is not).
removeDefaultExport(content) ==
    LET decl == {i \in 1..Len(content) : content[i].k = "defaultFn"}
        word == {i \in 1..Len(content) : content[i].k \in {"defaultConst", "defaultFnNested"}}
    IN  IF decl # {}
        THEN [exportedName |-> content[SetMin(decl)].tok, parses |-> TRUE]
        ELSE IF word # {}
        THEN IF content[SetMin(word)].k = "defaultConst"
             THEN [exportedName |-> content[SetMin(word)].tok, parses |-> TRUE]
             ELSE [exportedName |-> "function", parses |-> FALSE]
        ELSE [exportedName |-> "", parses |-> TRUE]

\* namedExports: the direct named exports in text order, then the
\* exported-facing names of the export lists
RECURSIVE NamedExports(_, _, _, _)
NamedExports(content, kinds, i, acc) ==
    IF i > Len(content) THEN acc
    ELSE NamedExports(content, kinds, i + 1,
             IF content[i].k \in kinds THEN AppendNew(acc, content[i].tok) ELSE acc)

\* exportInfo.set(file.name, {hasDefaultExport, namedExports, exportedName})
ExportInfo(content) ==
    LET r == removeDefaultExport(content)
    IN  [hasDefaultExport |-> r.exportedName # "",
         exportedName     |-> r.exportedName,
         namedExports     |-> NamedExports(content, {"exportAs"}, 1,
                                NamedExports(content, {"namedFn", "namedJsx", "namedConst"},
                                             1, <<>>))]

\* transform(processedInput, ...) of one file: the parse, then the visitor
\* over the import statements in source order
TransformFile(file, allowedDependencies, files) ==
    LET c   == file.content
        bad == {i \in 1..Len(c) : c[i].k = "import"
                    /\ RewriteImport(c[i], allowedDependencies, files).to = "throw"}
    IN  IF (\E i \in 1..Len(c) : c[i].k = "syntax") \/ ~removeDefaultExport(c).parses
        THEN SyntaxErrorMsg(file.name)
        ELSE IF bad # {} THEN RewriteImport(c[SetMin(bad)], allowedDependencies, files).error
        ELSE Null

\* files.forEach(transform): the first file that fails aborts the pass
transformMultipleFiles(files, dependencies) ==
    LET bad == {f \in 1..Len(files) : TransformFile(files[f], DOMAIN dependencies, files) # Null}
    IN  IF bad = {} THEN Null
        ELSE TransformFile(files[SetMin(bad)], DOMAIN dependencies, files)

\* new Function(transformedCode): an import statement the rewriter kept
\* does not compile inside a function body
CompileFails(files) ==
    \E f \in 1..Len(files) : \E i \in 1..Len(files[f].content) :
        files[f].content[i].k = "import" /\ files[f].content[i].nb = 0

DATE_FNS   == Nm("", "date-fns", "")
DATE_FNS_U == Nm("", "date_fns", "")

\* dep.replace(/[^a-zA-Z0-9_]/g, "_") on the dependency keys in use
safeName(dep) ==
    CASE dep = DATE_FNS   -> "date_fns"
      [] dep = DATE_FNS_U -> "date_fns"
      [] dep = SCOPE_ALL  -> "_scope__"
      [] dep = SCOPE_SUB  -> "_scope_sub"
      [] OTHER            -> dep.base

\* dependencyVars: const <safeName> = dependencies['<dep>'] for every key; two
\* const declarations of one name do not compile
DeclaresTwice(dependencies) ==
    \E k1, k2 \in DOMAIN dependencies : k1 # k2 /\ safeName(k1) = safeName(k2)

\* files.find((f) => f.isEntry) || files[0]
EntryIndex(files) ==
    IF \E f \in 1..Len(files) : files[f].isEntry
    THEN SetMin({f \in 1..Len(files) : files[f].isEntry})
    ELSE 1

SetMax(S) == CHOOSE x \in S : \A y \in S : x >= y

\* moduleDefinitions.get(name): the last definition set under the name
DefinitionOf(files, name) ==
    LET fs == {f \in 1..Len(files) : normalizeFilename(files[f].name) = name}
    IN  IF fs = {} THEN 0 ELSE SetMax(fs)

\* getModule(name) throws: no factory, or the factory throws while it runs
\* (a throw statement, a call of the undefined require, a top-level
\* getModule of a module that throws, or unbounded re-entry of a factory
\* that is still running)
RECURSIVE GetModuleThrows(_, _, _)
GetModuleThrows(files, name, running) ==
    LET f == DefinitionOf(files, name)
    IN  \/ f = 0
        \/ name \in running
        \/ \E i \in 1..Len(files[f].content) :
              LET st == files[f].content[i]
              IN  \/ st.k \in {"throw", "require"}
                  \/ /\ st.k = "import" /\ st.nb > 0 /\ st.spec # REACT
                     /\ normalizeFilename(st.spec) \in LocalNames(files)
                     /\ GetModuleThrows(files, normalizeFilename(st.spec),
                                        running \cup {name})

Component(file, name) == [kind |-> "component", file |-> file, name |-> name]

ErrorComponent == [kind |-> "ErrorComponent", file |-> NoName, name |-> "ErrorComponent"]

\* the first character of an identifier
FirstChar(name) ==
    CASE name \in {"App", "Alt"} -> "A"
      [] name = "Chunk"   -> "C"
      [] name = "Helper"  -> "H"
      [] name = "Widget"  -> "W"
      [] name = "VERSION" -> "V"
      [] name = "cfg"     -> "c"
      [] name = "helper"  -> "h"
      [] name = "view"    -> "v"
      [] name = "_util"   -> "_"

UpperCaseLetters == {"A", "C", "H", "V", "W"}

\* String.prototype.toUpperCase on one character
toUpperCase(ch) ==
    CASE ch = "c" -> "C"
      [] ch = "h" -> "H"
      [] ch = "v" -> "V"
      [] OTHER    -> ch

\* a runtime value as the component search sees it
Value(callable, name, evidence) ==
    [callable |-> callable, name |-> name, evidence |-> evidence]

\* the value a declaration statement binds to its identifier
ValueOf(st) ==
    Value(st.k \in {"defaultFn", "namedFn", "namedJsx", "localFn"}, st.tok, st.k = "namedJsx")

\* the statements that declare an identifier of the module scope
Declares(st) ==
    st.k \in {"defaultFn", "namedFn", "namedJsx", "namedConst", "defaultConst", "localFn"}

\* typeof <name> !== 'undefined' inside the module function
Defined(content, name) ==
    \E i \in 1..Len(content) : Declares(content[i]) /\ content[i].tok = name

\* the value of the identifier <name> inside the module function
Lookup(content, name) ==
    ValueOf(content[SetMin({i \in 1..Len(content) :
                               Declares(content[i]) /\ content[i].tok = name})])

\* potentialComponents: /(?:const|let|var|function)\s+([A-Z][A-Za-z0-9_]*)\s*(?:=|:|\()/
IsPotentialComponent(st) == st.k = "localFn" /\ FirstChar(st.tok) \in UpperCaseLetters

Prop(key, val) == [key |-> key, val |-> val]

RECURSIVE AutoExports(_, _, _)
AutoExports(sts, i, acc) ==
    IF i > Len(sts) THEN acc
    ELSE AutoExports(sts, i + 1,
             IF i = 1
             THEN acc \o <<Prop(sts[i].tok, ValueOf(sts[i])),
                           Prop("__autoExported", Value(FALSE, "", FALSE))>>
             ELSE Append(acc, Prop(sts[i].tok, ValueOf(sts[i]))))

\* for (const exportName of namedExports)
\*   if (typeof exportName !== 'undefined') exports.exportName = exportName
RECURSIVE NamedProps(_, _, _, _)
NamedProps(content, names, i, acc) ==
    IF i > Len(names) THEN acc
    ELSE NamedProps(content, names, i + 1,
             IF Defined(content, names[i])
             THEN Append(acc, Prop(names[i], Lookup(content, names[i])))
             ELSE acc)

\* the own properties, in insertion order, of the object the module factory
\* returns: exportsSetup assigns module.exports a new object holding the
\* default export and then sets the named exports on the old one
ExportsOf(file) ==
    LET c    == file.content
        info == ExportInfo(c)
        ps   == SelectSeq(c, IsPotentialComponent)
    IN  IF info.hasDefaultExport THEN <<Prop("default", Lookup(c, info.exportedName))>>
        ELSE IF info.namedExports # <<>> THEN NamedProps(c, info.namedExports, 1, <<>>)
        ELSE AutoExports(ps, 1, <<>>)

\* isReactComponent: typeof value === 'function' and (name[0] ===
\* name[0].toUpperCase() or the function text holds element construction)
isReactComponent(value) ==
    /\ value.callable
    /\ \/ toUpperCase(FirstChar(value.name)) = FirstChar(value.name)
       \/ value.evidence

\* entryModule.default if callable, else findFirstComponent(entryModule)
ResolveComponent(file) ==
    LET ex == ExportsOf(file)
        ds == {i \in 1..Len(ex) : ex[i].key = "default" /\ ex[i].val.callable}
        cs == {i \in 1..Len(ex) : isReactComponent(ex[i].val)}
    IN  IF ds # {} THEN Component(file.name, ex[SetMin(ds)].val.name)
        ELSE IF cs # {} THEN Component(file.name, ex[SetMin(cs)].val.name)
        ELSE Null

\* the errors of getModule and of the component search propagate
Instantiate_NoCatch(files) ==
    LET name == normalizeFilename(files[EntryIndex(files)].name)
        comp == ResolveComponent(files[DefinitionOf(files, name)])
    IN  IF GetModuleThrows(files, name, {})
        THEN [threw |-> TRUE, Component |-> Null, failed |-> "instantiate"]
        ELSE IF comp = Null
        THEN [threw |-> TRUE, Component |-> Null, failed |-> "nocomponent"]
        ELSE [threw |-> FALSE, Component |-> comp, failed |-> "none"]

\* factoryFunction(React, allDependencies): try { getModule(entry) ... return
\* Component } catch (err) { return function ErrorComponent() {...} }
Instantiate(files) ==
    LET name == normalizeFilename(files[EntryIndex(files)].name)
        comp == ResolveComponent(files[DefinitionOf(files, name)])
    IN  IF GetModuleThrows(files, name, {})
        THEN [threw |-> FALSE, Component |-> ErrorComponent, failed |-> "instantiate"]
        ELSE IF comp = Null
        THEN [threw |-> FALSE, Component |-> ErrorComponent, failed |-> "nocomponent"]
        ELSE [threw |-> FALSE, Component |-> comp, failed |-> "none"]

(***************************************************************************)
(* executeCode (src/src/index.tsx:109-172)                                 *)
(***************************************************************************)
Result(C, error, forbidden) ==
    [Component |-> C, error |-> error, forbiddenPatterns |-> forbidden]

NoResult == Result(Null, Null, FALSE)

\* the error leaves executeCode: its promise rejects
Catch_Rethrow(err) == [settle |-> "rejected", result |-> NoResult]

\* catch (err) { return { Component: null, error: err.message, forbiddenPatterns: false } }
Catch(err) == [settle |-> "fulfilled", result |-> Result(Null, err, FALSE)]

\* how a pass ended: its promise, its value, and the step that failed
Ended(c, failedAt, evaluated) ==
    [settle |-> c.settle, result |-> c.result, failedAt |-> failedAt, evaluated |-> evaluated]

\* lines 149-163: transform, compile, instantiate
RunPipeline(files, dependencies) ==
    LET terr == transformMultipleFiles(files, dependencies)
        inst == Instantiate(files)
    IN  IF terr # Null THEN Ended(Catch(terr), "transform", FALSE)
        ELSE IF CompileFails(files) \/ DeclaresTwice(dependencies)
        THEN Ended(Catch(CompileErrorMsg), "compile", FALSE)
        ELSE IF inst.threw THEN Ended(Catch([kind |-> inst.failed]), inst.failed, TRUE)
        ELSE Ended([settle |-> "fulfilled", result |-> Result(inst.Component, Null, FALSE)],
                   inst.failed, TRUE)

(***************************************************************************)
(* Inputs of a pass: the arguments of executeCode                          *)
(***************************************************************************)
Input(code, dependencies, securityPatterns, enableAuto, custom, allowedDomains, ext) ==
    [code |-> code, dependencies |-> dependencies, securityPatterns |-> securityPatterns,
     enableAutoDependencies |-> enableAuto, customDependencyRegistry |-> custom,
     allowedDomains |-> allowedDomains, dependencyCache |-> ext]

Dep(key, value) == [key |-> key, value |-> value]

FS == Nm("", "fs", "")

F_APP     == File(APP_TSX, <<DefaultFn("App")>>, FALSE)
F_COOKIE  == File(APP_TSX, <<Text("eval("), Text("document.cookie"), DefaultFn("App")>>, FALSE)
F_UTILCK  == File(UTIL_TS, <<Text("document.cookie"), NamedFn("Helper")>>, FALSE)
F_IMPORT  == File(APP_TSX, <<Import(LODASH, 1), Import(ZOD, 1), DefaultFn("App")>>, TRUE)
F_IMPORT1 == File(APP_TSX, <<Import(REACT, 1), Import(LODASH, 2), DefaultFn("App")>>, FALSE)
F_LODASH  == File(LODASH_TS, <<Require(FS), NamedFn("Chunk")>>, FALSE)
F_NOCOMP  == File(APP_TSX, <<Text("x")>>, FALSE)
F_SYNTAX  == File(APP_TSX, <<Syntax, DefaultFn("App")>>, FALSE)
F_BARE    == File(APP_TSX, <<Import(FS, 0), DefaultFn("App")>>, FALSE)
F_SCOPE   == File(APP_TSX, <<Import(SCOPE_SUB, 1), Import(FS, 1), DefaultFn("App")>>, FALSE)
F_NESTED  == File(APP_TSX, <<DefaultFnNested("App")>>, FALSE)
F_STAR    == File(APP_TSX, <<ImportNamespace(LODASH, "_"), DefaultFn("App")>>, FALSE)
F_DATE    == File(APP_TSX, <<Import(DATE_FNS, 1), Import(DATE_FNS_U, 1), DefaultFn("App")>>, FALSE)

S_COOKIE == Input(<<F_COOKIE, F_UTILCK>>, <<>>, defaultSecurityPatterns, TRUE, EmptyMap,
                  DefaultDomains, NoExt)
S_GLOBAL == Input(<<F_COOKIE>>, <<>>, <<G_COOKIE>>, FALSE, EmptyMap, DefaultDomains, NoExt)
S_MANOBJ == Input(<<F_IMPORT>>, <<Dep(LODASH, Obj("O1"))>>, defaultSecurityPatterns, TRUE,
                  EmptyMap, DefaultDomains, NoExt)
S_MANURL == Input(<<F_IMPORT1>>, <<Dep(LODASH, U_SUB)>>, defaultSecurityPatterns, TRUE,
                  EmptyMap, DefaultDomains, "E1")
S_EVIL   == Input(<<F_IMPORT1>>, <<Dep(LODASH, U_EVIL)>>, defaultSecurityPatterns, FALSE,
                  EmptyMap, DefaultDomains, NoExt)
S_WIDE   == Input(<<F_IMPORT1>>, <<Dep(LODASH, U_EVIL), Dep(ZOD, U_LOOK)>>,
                  defaultSecurityPatterns, FALSE, EmptyMap, WideDomains, NoExt)
S_EXT    == Input(<<F_IMPORT>>, <<>>, defaultSecurityPatterns, TRUE, EmptyMap,
                  DefaultDomains, "E2")
S_LOCAL  == Input(<<F_IMPORT1, F_LODASH>>, <<>>, defaultSecurityPatterns, TRUE,
                  (LODASH :> U_BAD), DefaultDomains, NoExt)
S_NOCOMP == Input(<<F_NOCOMP>>, <<>>, defaultSecurityPatterns, TRUE, EmptyMap,
                  DefaultDomains, NoExt)
S_SYNTAX == Input(<<F_SYNTAX>>, <<>>, defaultSecurityPatterns, TRUE, EmptyMap,
                  DefaultDomains, NoExt)
S_BARE   == Input(<<F_BARE>>, <<>>, defaultSecurityPatterns, TRUE, EmptyMap,
                  DefaultDomains, NoExt)

S_SCOPE  == Input(<<F_SCOPE>>, <<Dep(SCOPE_ALL, Obj("O2"))>>, defaultSecurityPatterns, TRUE,
                  EmptyMap, DefaultDomains, NoExt)
S_SHADOW == Input(<<F_IMPORT1, F_LODASH>>, <<>>, defaultSecurityPatterns, TRUE, EmptyMap,
                  DefaultDomains, NoExt)
S_NESTED == Input(<<F_NESTED>>, <<>>, defaultSecurityPatterns, FALSE, EmptyMap,
                  DefaultDomains, NoExt)
S_COLLIDE == Input(<<F_DATE>>, <<Dep(DATE_FNS, Obj("O3")), Dep(DATE_FNS_U, Obj("O4"))>>,
                   defaultSecurityPatterns, FALSE, EmptyMap, DefaultDomains, NoExt)

S_STAR   == Input(<<F_STAR>>, <<Dep(LODASH, Obj("O1"))>>, defaultSecurityPatterns, FALSE,
                  EmptyMap, DefaultDomains, NoExt)

\* the inputs the passes are started with
Scenarios == <<S_COOKIE, S_GLOBAL, S_MANOBJ, S_MANURL, S_EVIL, S_WIDE, S_EXT, S_LOCAL,
               S_NOCOMP, S_SYNTAX, S_BARE, S_SCOPE, S_SHADOW, S_NESTED, S_COLLIDE, S_STAR>>

ScenarioIds == 1..Len(Scenarios)

ExtIds == {"E1", "E2"}

(***************************************************************************)
(* State                                                                   *)
(***************************************************************************)
VARIABLES
    cache,            \* ModuleLoader.cache: url -> module
    loadingPromises,  \* ModuleLoader.loadingPromises: url -> load in flight
    loads,            \* the loadModuleInternal runs started so far
    extCache,         \* the caller-supplied dependencyCache Maps
    lastIndex,        \* lastIndex of every RegExp object
    pass,             \* the executeCode calls
    factoryRun,       \* one call of the generated factory: registry and call stack
    loadRun,          \* one run of loadModuleInternal: tiers and script element
    host              \* the CodeExecutor component: props, refs, state, passes

vars == <<cache, loadingPromises, loads, extCache, lastIndex, pass, factoryRun, loadRun, host>>

loaderVars == <<cache, loadingPromises, loads, extCache, lastIndex, pass>>

\* no factory call is being followed
NoRun ==
    [pc |-> "off", files |-> <<>>, stack |-> <<>>, moduleCache |-> EmptyMap,
     invoked |-> EmptyMap, got |-> EmptyMap, Component |-> Null, failed |-> "none",
     from |-> 0, exports |-> EmptyMap, bound |-> {}]

\* a failure reason: the message of the error a tier ended with
Reason(kind, detail) == [kind |-> kind, detail |-> detail]

NoReason == Reason("", "")

TierNames == {"import", "script", "fetch"}

\* the script element and the promise of loadViaScriptTag before the call
NoScript ==
    [appended |-> FALSE, inHead |-> FALSE, globalSet |-> FALSE, ran |-> FALSE,
     errored |-> FALSE, timerFired |-> FALSE, settle |-> "pending", cleanups |-> 0,
     threw |-> 0]

\* no run of loadModuleInternal is being followed
NoLoad ==
    [pc |-> "off", url |-> NoUrl, attempted |-> <<>>,
     status |-> [t \in TierNames |-> "none"], reason |-> [t \in TierNames |-> NoReason],
     settle |-> "pending", value |-> Null, error |-> Null, logged |-> <<>>,
     script |-> NoScript]

\* no CodeExecutor is mounted: useState(initialExecutionResult),
\* useState(false), useRef() and no render yet
NoHost ==
    [pc |-> "off", code |-> Null, dependencies |-> [given |-> FALSE, entries |-> <<>>],
     hasChanges |-> FALSE, prevCodeRef |-> Null, prevDependenciesRef |-> Null,
     executionResult |-> NoResult, isLoading |-> FALSE, started |-> <<>>,
     resolved |-> <<>>, heldFrom |-> 0, reported |-> {}, stable |-> {}]

IdlePass ==
    [pc |-> "idle", sc |-> 0, bypass |-> FALSE,
     manualCalls |-> <<>>, autoCalls |-> <<>>, firstReject |-> 0,
     processed |-> EmptyMap, auto |-> EmptyMap, deps |-> EmptyMap, returned |-> FALSE,
     settle |-> "pending", result |-> NoResult, failedAt |-> "none",
     transformed |-> FALSE, evaluated |-> FALSE]

Init ==
    /\ cache = EmptyMap
    /\ loadingPromises = EmptyMap
    /\ loads = <<>>
    /\ extCache = [e \in ExtIds |-> IF e = "E1" THEN EmptyMap
                                   ELSE (U_LODASH :> Mod(U_LODASH, 0))]
    /\ lastIndex = [id \in PatternIds |-> 0]
    /\ pass = [p \in Passes |-> IdlePass]
    /\ factoryRun = NoRun
    /\ loadRun = NoLoad
    /\ host = NoHost

\* resolveAutoDependencies up to its await: the loads of the detected imports
AutoPhase(in, lp, lds) ==
    IF in.enableAutoDependencies
    THEN IssueCalls(AutoEntries(detectImports(in.code, 1, <<>>),
                                dependencyRegistry(in.customDependencyRegistry), 1, <<>>),
                    1, in.allowedDomains, in.dependencyCache, cache, extCache, lp, lds, <<>>)
    ELSE [calls |-> <<>>, lp |-> lp, loads |-> lds]

Finish(rec, e) ==
    [rec EXCEPT !.pc = "done", !.settle = e.settle, !.result = e.result,
                !.failedAt = e.failedAt, !.evaluated = e.evaluated]

\* executeCode from its call to its first await
Begin(p, s, byp) ==
    LET in  == Scenarios[s]
        sec == SecurityCheck(in.code, in.securityPatterns, byp, lastIndex)
        man == IssueCalls(ManualUrlEntries(in.dependencies, 1, <<>>), 1, in.allowedDomains,
                          in.dependencyCache, cache, extCache, loadingPromises, loads, <<>>)
        aut == AutoPhase(in, loadingPromises, loads)
        rec == [pass[p] EXCEPT !.sc = s, !.bypass = byp]
    IN  /\ lastIndex' = sec.li
        /\ UNCHANGED <<cache, extCache, factoryRun, loadRun, host>>
        /\ IF sec.hit
           THEN /\ pass' = [pass EXCEPT ![p] = Finish(rec,
                        Ended([settle |-> "fulfilled",
                               result |-> Result(Null,
                                   ForbiddenMsg(in.code[sec.file].name,
                                                in.securityPatterns[sec.pat].id), TRUE)],
                              "security", FALSE))]
                /\ UNCHANGED <<loadingPromises, loads>>
           ELSE IF man.calls # <<>>
           THEN /\ pass' = [pass EXCEPT ![p] =
                        [rec EXCEPT !.pc = "awaitManual", !.manualCalls = man.calls,
                                    !.firstReject = FirstFailed(man.calls, man.loads),
                                    !.processed = ManualValues(in.dependencies, 1, EmptyMap)]]
                /\ loadingPromises' = man.lp
                /\ loads' = man.loads
           ELSE /\ pass' = [pass EXCEPT ![p] =
                        [rec EXCEPT !.pc = "awaitAuto", !.autoCalls = aut.calls,
                                    !.processed = ManualValues(in.dependencies, 1, EmptyMap)]]
                /\ loadingPromises' = aut.lp
                /\ loads' = aut.loads

\* the effect of CodeExecutor runs executeCode(..., false, ...)
StartPass(p, s) ==
    /\ pass[p].pc = "idle"
    /\ \A q \in Passes : q < p => pass[q].pc # "idle"
    /\ Begin(p, s, FALSE)

\* handleBypassSecurity: the button shown with a forbidden-pattern result
\* re-runs executeCode(..., true, ...) on the same inputs
StartBypass(p, q) ==
    /\ pass[p].pc = "idle"
    /\ \A r \in Passes : r < p => pass[r].pc # "idle"
    /\ pass[q].pc = "done"
    /\ pass[q].result.forbiddenPatterns
    /\ Begin(p, pass[q].sc, TRUE)

\* processDependencies resumes after await Promise.all(manualLoadPromises)
ManualSettle(p) ==
    LET rec  == pass[p]
        in   == Scenarios[rec.sc]
        join == ManualJoin(rec.manualCalls, loads, rec.firstReject)
        proc == Collect(rec.manualCalls, loads, 1, rec.processed)
        aut  == AutoPhase(in, loadingPromises, loads)
        bad  == rec.manualCalls[rec.firstReject]
    IN  /\ rec.pc = "awaitManual"
        /\ join # "pending"
        /\ UNCHANGED <<cache, extCache, lastIndex, factoryRun, loadRun, host>>
        /\ IF join = "rejected"
           THEN /\ pass' = [pass EXCEPT ![p] = Finish(rec,
                        Ended(Catch(ManualFailMsg(bad.key, bad.url, CallError(bad))),
                              "deps", FALSE))]
                /\ UNCHANGED <<loadingPromises, loads>>
           ELSE /\ pass' = [pass EXCEPT ![p] =
                        [rec EXCEPT !.pc = "awaitAuto", !.processed = proc,
                                    !.autoCalls = aut.calls]]
                /\ loadingPromises' = aut.lp
                /\ loads' = aut.loads

\* processDependencies returns and executeCode runs to its end
AutoSettle(p) ==
    LET rec  == pass[p]
        in   == Scenarios[rec.sc]
        join == AutoJoin(rec.autoCalls, loads)
        auto == Collect(rec.autoCalls, loads, 1, EmptyMap)
        deps == IF in.enableAutoDependencies
                THEN MergeDependencies(auto, rec.processed) ELSE rec.processed
        bad  == rec.autoCalls[FirstFailed(rec.autoCalls, loads)]
    IN  /\ rec.pc = "awaitAuto"
        /\ join # "pending"
        /\ UNCHANGED <<cache, extCache, lastIndex, loadingPromises, loads, factoryRun, loadRun, host>>
        /\ IF join = "rejected"
           THEN pass' = [pass EXCEPT ![p] = Finish(rec, Ended(Catch(CallError(bad)), "deps", FALSE))]
           ELSE pass' = [pass EXCEPT ![p] =
                    Finish([rec EXCEPT !.auto = auto, !.deps = deps, !.returned = TRUE,
                                       !.transformed = TRUE],
                           RunPipeline(in.code, deps))]

SettleInflight_Keep(lp, url) == lp

\* the finally block of loadModule: the in-flight entry of the URL is deleted
\* however the load settled
SettleInflight(lp, url) == Remove(lp, url)

\* a loadModuleInternal run resolves; the loadModule call that started it
\* resumes: cache.set, externalCache.set, loadingPromises.delete
LoadSucceed(l) ==
    LET url == loads[l].url
        ext == loads[l].ext
    IN  /\ loads[l].status = "pending"
        /\ loads' = [loads EXCEPT ![l].status = "ok"]
        /\ cache' = Put(cache, url, Mod(url, l))
        /\ extCache' = IF ext = NoExt THEN extCache
                       ELSE [extCache EXCEPT ![ext] = Put(@, url, Mod(url, l))]
        /\ loadingPromises' = SettleInflight(loadingPromises, url)
        /\ UNCHANGED <<lastIndex, pass, factoryRun, loadRun, host>>

\* a loadModuleInternal run rejects (all tiers failed); the call that started
\* it resumes in its finally block: loadingPromises.delete
LoadFail(l) ==
    /\ loads[l].status = "pending"
    /\ loads' = [loads EXCEPT ![l].status = "failed"]
    /\ loadingPromises' = SettleInflight(loadingPromises, loads[l].url)
    /\ pass' = [p \in Passes |->
                  IF pass[p].pc = "awaitManual" /\ pass[p].firstReject = 0
                  THEN [pass[p] EXCEPT !.firstReject = FirstOn(pass[p].manualCalls, l)]
                  ELSE pass[p]]
    /\ UNCHANGED <<cache, extCache, lastIndex, factoryRun, loadRun, host>>

Next ==
    \/ \E p \in Passes, s \in ScenarioIds : StartPass(p, s)
    \/ \E p, q \in Passes : StartBypass(p, q)
    \/ \E p \in Passes : ManualSettle(p)
    \/ \E p \in Passes : AutoSettle(p)
    \/ \E l \in 1..Len(loads) : LoadSucceed(l)
    \/ \E l \in 1..Len(loads) : LoadFail(l)

Spec == Init /\ [][Next]_vars

(***************************************************************************)
(* The generated factory, statement by statement                           *)
(*   (src/src/utils/index.ts:641-807): getModule, the module factories and *)
(*   the entry component resolution of one factoryFunction(React, deps)    *)
(*   call, for a batch that transformed and compiled                       *)
(***************************************************************************)
\* frames the engine's call stack holds before it throws RangeError
StackLimit == 4

INDEX_TSX == Nm("", "index", "tsx")

\* code: string | CodeFile[]
Source(content) == [isArray |-> FALSE, content |-> content, files |-> <<>>]

Batch(files) == [isArray |-> TRUE, content |-> <<>>, files |-> files]

\* Array.isArray(code) ? code : [{ name: "index.tsx", content: code, isEntry: true }]
CodeFiles(code) ==
    IF code.isArray THEN code.files ELSE <<File(INDEX_TSX, code.content, TRUE)>>

A_TSX  == Nm("", "a", "tsx")
B_TSX  == Nm("", "b", "tsx")
APP_TS == Nm("./", "App", "ts")
MOD_A  == Nm("./", "a", "")
MOD_B  == Nm("./", "b", "")
MOD_APP == Nm("./", "App", "")

G_UTIL  == File(UTIL_TS, <<NamedFn("Helper"), NamedFn("helper")>>, FALSE)
G_APP2  == File(APP_TSX, <<Import(REACT, 1), Import(UTIL, 2), DefaultFn("App")>>, FALSE)
G_APPAB == File(APP_TSX, <<Import(MOD_A, 1), Import(MOD_B, 1), DefaultFn("App")>>, TRUE)
G_A     == File(A_TSX, <<Import(UTIL, 1), NamedFn("Widget")>>, FALSE)
G_B     == File(B_TSX, <<Import(UTIL, 1), NamedFn("Chunk")>>, FALSE)
G_CYCA  == File(A_TSX, <<Import(MOD_B, 1), NamedFn("Widget")>>, FALSE)
G_CYCB  == File(B_TSX, <<NamedConst("VERSION"), Import(MOD_A, 1), NamedFn("Chunk")>>, FALSE)
G_SELF  == File(APP_TSX, <<Import(MOD_APP, 1), DefaultFn("App")>>, FALSE)
G_ALT   == File(APP_TS, <<DefaultFn("Alt")>>, FALSE)
G_ENTRY == File(APP_TSX, <<DefaultFn("App")>>, TRUE)
G_MIXED == File(APP_TSX, <<NamedConst("VERSION"), NamedFn("helper"), NamedJsx("view"),
                           NamedFn("Widget")>>, FALSE)
G_UNDER == File(APP_TSX, <<NamedFn("helper"), NamedFn("_util"), NamedFn("Widget")>>, FALSE)
G_DCONST == File(APP_TSX, <<DefaultConst("cfg"), NamedFn("Widget")>>, FALSE)
G_AUTO  == File(APP_TSX, <<Text("x"), LocalFn("helper"), LocalFn("App")>>, FALSE)
G_THROW == File(UTIL_TS, <<Throw, NamedFn("Helper")>>, FALSE)
G_LOWER == File(APP_TSX, <<NamedConst("VERSION"), NamedFn("helper")>>, FALSE)
G_LIST  == File(UTIL_TS, <<LocalFn("helper"), LocalFn("Widget"), ExportAs("helper", "helper"),
                           ExportAs("Widget", "view")>>, FALSE)
G_APPL  == File(APP_TSX, <<ImportNamed(UTIL, "helper"), ImportNamed(UTIL, "view"),
                           DefaultFn("App")>>, TRUE)
G_APPD  == File(APP_TSX, <<ImportNamed(MOD_A, "Widget"), ImportNamed(MOD_A, "Widget"),
                           DefaultFn("App")>>, TRUE)
G_BOTH  == File(A_TSX, <<NamedFn("Widget"), DefaultFn("Alt")>>, FALSE)

\* the code arguments the factory is followed for
Candidates ==
    {Source(<<DefaultFn("App")>>), Source(<<NamedFn("helper"), NamedJsx("view")>>),
     Batch(<<G_APP2, G_UTIL>>), Batch(<<G_APPAB, G_A, G_B, G_UTIL>>),
     Batch(<<G_UTIL, G_A, G_APPAB, G_B>>), Batch(<<G_UTIL, G_ENTRY, G_ALT>>),
     Batch(<<G_CYCA, G_CYCB>>), Batch(<<G_SELF>>), Batch(<<G_ENTRY, G_ALT>>),
     Batch(<<G_UTIL, G_ENTRY, File(A_TSX, <<DefaultFn("Alt")>>, TRUE)>>),
     Batch(<<G_MIXED>>), Batch(<<G_UNDER>>), Batch(<<G_DCONST>>), Batch(<<G_AUTO>>),
     Batch(<<G_APP2, G_THROW>>), Batch(<<G_LOWER>>), Batch(<<F_NOCOMP>>),
     Batch(<<G_APPL, G_LIST>>), Batch(<<G_APPD, G_BOTH>>), Batch(<<G_APPD, G_A, G_UTIL>>)}

\* the factory is called only when the transform and the compilation succeeded
RunInputs ==
    {c \in Candidates : /\ transformMultipleFiles(CodeFiles(c), EmptyMap) = Null
                         /\ ~CompileFails(CodeFiles(c))}

RunInit ==
    /\ cache = EmptyMap
    /\ loadingPromises = EmptyMap
    /\ loads = <<>>
    /\ extCache = [e \in ExtIds |-> EmptyMap]
    /\ lastIndex = [id \in PatternIds |-> 0]
    /\ pass = [p \in Passes |-> IdlePass]
    /\ \E c \in RunInputs : factoryRun = [NoRun EXCEPT !.pc = "start", !.files = CodeFiles(c)]
    /\ loadRun = NoLoad
    /\ host = NoHost

Frame(name, file, id) == [name |-> name, file |-> file, id |-> id, pc |-> 1, b |-> 0]

Top == factoryRun.stack[Len(factoryRun.stack)]

AtEnd(fr) == fr.pc > Len(factoryRun.files[fr.file].content)

Cur(fr) == factoryRun.files[fr.file].content[fr.pc]

\* the statement is const x = getModule("<name>").<x>, once per binding
CallsGetModule(st) == RewriteImport(st, {}, factoryRun.files).to = "getModule"

\* the name the next getModule call is made with
Target ==
    IF factoryRun.pc = "start"
    THEN normalizeFilename(factoryRun.files[EntryIndex(factoryRun.files)].name)
    ELSE normalizeFilename(Cur(Top).spec)

AtCall ==
    \/ factoryRun.pc = "start"
    \/ /\ factoryRun.pc = "running"
       /\ ~AtEnd(Top)
       /\ CallsGetModule(Cur(Top))

\* the frame after one binding of its current statement, or the statement, is done
Advance(fr) ==
    IF ~AtEnd(fr) /\ CallsGetModule(Cur(fr)) /\ fr.b + 1 < Cur(fr).nb
    THEN [fr EXCEPT !.b = fr.b + 1]
    ELSE [fr EXCEPT !.pc = fr.pc + 1, !.b = 0]

AdvanceTop(stack) == [stack EXCEPT ![Len(stack)] = Advance(stack[Len(stack)])]

Count(m, k) == IF k \in DOMAIN m THEN m[k] ELSE 0

Got(m, k) == IF k \in DOMAIN m THEN m[k] ELSE {}

\* catch (err) { return function ErrorComponent() {...} }
Caught(failed) ==
    [factoryRun EXCEPT !.pc = "done", !.stack = <<>>, !.Component = ErrorComponent,
                       !.failed = failed]

\* the value of a property that an object does not have
Undefined == Value(FALSE, "undefined", FALSE)

\* <exports>.<key>
PropGet(ex, key) ==
    IF \E i \in 1..Len(ex) : ex[i].key = key
    THEN ex[SetMax({i \in 1..Len(ex) : ex[i].key = key})].val
    ELSE Undefined

\* const <id> = getModule("<name>").<id> in the importing frame fr
Bind(bound, fr, ex) ==
    IF Cur(fr).id = "" THEN bound
    ELSE bound \cup {[importer |-> fr.name, source |-> normalizeFilename(Cur(fr).spec),
                       imported |-> Cur(fr).id, value |-> PropGet(ex, Cur(fr).id)]}

\* moduleCache.set is left out
CacheSet_Skip(mc, name, exports) == mc

\* moduleCache.set(name, moduleExports)
CacheSet(mc, name, exports) == Put(mc, name, exports)

\* getModule(name) with moduleCache.has(name): return moduleCache.get(name)
GetModuleHit ==
    /\ AtCall
    /\ Target \in DOMAIN factoryRun.moduleCache
    /\ factoryRun' =
           [factoryRun EXCEPT !.stack = AdvanceTop(@),
                              !.got = Put(@, Target, Got(@, Target)
                                               \cup {factoryRun.moduleCache[Target]}),
                              !.bound = Bind(@, Top, factoryRun.exports[Target])]
    /\ UNCHANGED <<loaderVars, loadRun, host>>

\* getModule(name) without a cached entry: moduleFactory(React) is invoked
GetModuleMiss ==
    /\ AtCall
    /\ Target \notin DOMAIN factoryRun.moduleCache
    /\ DefinitionOf(factoryRun.files, Target) # 0
    /\ Len(factoryRun.stack) < StackLimit
    /\ factoryRun' =
           [factoryRun EXCEPT
               !.pc = "running",
               !.invoked = Put(@, Target, Count(@, Target) + 1),
               !.stack = Append(@, Frame(Target, DefinitionOf(factoryRun.files, Target),
                                         Count(factoryRun.invoked, Target) + 1))]
    /\ UNCHANGED <<loaderVars, loadRun, host>>

\* getModule(name) throws: no factory under the name, or the call stack is
\* exhausted; every frame rethrows up to the catch of the generated factory
GetModuleThrow ==
    /\ AtCall
    /\ Target \notin DOMAIN factoryRun.moduleCache
    /\ \/ DefinitionOf(factoryRun.files, Target) = 0
       \/ Len(factoryRun.stack) >= StackLimit
    /\ factoryRun' = Caught("instantiate")
    /\ UNCHANGED <<loaderVars, loadRun, host>>

\* a statement of the running module that calls no getModule and does not throw
FactoryStep ==
    /\ factoryRun.pc = "running"
    /\ ~AtEnd(Top)
    /\ ~CallsGetModule(Cur(Top))
    /\ Cur(Top).k \notin {"throw", "require"}
    /\ factoryRun' = [factoryRun EXCEPT !.stack = AdvanceTop(@)]
    /\ UNCHANGED <<loaderVars, loadRun, host>>

\* a statement of the running module throws
FactoryThrow ==
    /\ factoryRun.pc = "running"
    /\ ~AtEnd(Top)
    /\ Cur(Top).k \in {"throw", "require"}
    /\ factoryRun' = Caught("instantiate")
    /\ UNCHANGED <<loaderVars, loadRun, host>>

\* the factory returns module.exports to getModule, which caches and returns
\* it: to the importing module, or to the entry component resolution
FactoryReturn ==
    /\ factoryRun.pc = "running"
    /\ AtEnd(Top)
    /\ LET fr    == Top
           exps  == <<fr.name, fr.id>>
           mc    == CacheSet(factoryRun.moduleCache, fr.name, exps)
           rest  == SubSeq(factoryRun.stack, 1, Len(factoryRun.stack) - 1)
           got   == Put(factoryRun.got, fr.name, Got(factoryRun.got, fr.name) \cup {exps})
           comp  == ResolveComponent(factoryRun.files[fr.file])
           ex    == Put(factoryRun.exports, fr.name, ExportsOf(factoryRun.files[fr.file]))
       IN  IF rest # <<>>
           THEN factoryRun' = [factoryRun EXCEPT !.moduleCache = mc, !.got = got,
                                                 !.stack = AdvanceTop(rest),
                                                 !.exports = ex,
                                                 !.bound = Bind(@, rest[Len(rest)],
                                                                ex[fr.name])]
           ELSE IF comp = Null
           THEN factoryRun' = [Caught("nocomponent") EXCEPT !.moduleCache = mc, !.got = got,
                                                            !.from = fr.file, !.exports = ex]
           ELSE factoryRun' = [factoryRun EXCEPT !.pc = "done", !.stack = <<>>,
                                                 !.moduleCache = mc, !.got = got,
                                                 !.Component = comp, !.from = fr.file,
                                                 !.exports = ex]
    /\ UNCHANGED <<loaderVars, loadRun, host>>

RunNext ==
    \/ GetModuleHit
    \/ GetModuleMiss
    \/ GetModuleThrow
    \/ FactoryStep
    \/ FactoryThrow
    \/ FactoryReturn

RunSpec == RunInit /\ [][RunNext]_vars

(***************************************************************************)
(* loadModuleInternal (src/src/utils/index.ts:84-119): one run followed    *)
(* tier by tier, with the script element, the temporary global, the event  *)
(* listeners and the timer of loadViaScriptTag (121-167).  The environment *)
(* decides which tier works, why it fails and in which order the events of *)
(* the script element and the timer arrive.                                *)
(***************************************************************************)
Tiers == <<"import", "script", "fetch">>

LoadUrls == {U_LODASH, U_ZOD, U_SUB}

ImportReasons ==
    {Reason("Failed to fetch dynamically imported module", ""),
     Reason("Refused to load the script", "Content Security Policy")}

FetchReasons == {"HTTP 404: Not Found", "Failed to fetch", "require('x') not supported"}

ScriptFailedMsg == Reason("Failed to load module via script tag", "")

ScriptTimeoutMsg == Reason("Timeout loading module via script tag", "")

\* throw new Error(`Fetch+eval failed: ${error.message}`)
FetchEvalMsg(inner) == Reason("Fetch+eval failed", inner)

\* the first failed tier is named instead of the last
AllMethodsFailed_First(url, reason) ==
    [kind |-> "Failed to load module from", url |-> url, named |-> <<reason["import"]>>]

\* throw new Error(`Failed to load module from ${url}. All methods failed.
\* Last error: ${fetchError.message}`)
AllMethodsFailed(url, reason) ==
    [kind |-> "Failed to load module from", url |-> url, named |-> <<reason["fetch"]>>]

\* the script tier is passed over
NextTier_Skip(tier) == "fetch"

\* the nesting of the catch blocks: the tier tried when a tier has failed
NextTier(tier) == IF tier = "import" THEN "script" ELSE "fetch"

\* the temporary global is left in place
cleanup_KeepGlobal(s) ==
    [s EXCEPT !.cleanups = @ + 1,
              !.inHead = FALSE,
              !.threw = IF s.inHead THEN @ ELSE @ + 1]

\* cleanup(): document.head.removeChild(script), which throws when the
\* script is no longer a child of head, then delete window[globalVarName]
cleanup(s) ==
    [s EXCEPT !.cleanups = @ + 1,
              !.inHead = FALSE,
              !.globalSet = IF s.inHead THEN FALSE ELSE @,
              !.threw = IF s.inHead THEN @ ELSE @ + 1]

\* return module
Succeed(run, tier) ==
    [run EXCEPT !.pc = "done", !.status[tier] = "ok", !.settle = "fulfilled",
                !.value = Mod(run.url, 1)]

\* catch (...Error): the next tier is started, or all methods have failed
Fail(run, tier, why) ==
    LET r == [run EXCEPT !.status[tier] = "failed", !.reason[tier] = why]
    IN  IF tier = "fetch"
        THEN [r EXCEPT !.pc = "done", !.settle = "rejected",
                       !.error = AllMethodsFailed(r.url, r.reason),
                       !.logged = <<r.reason["import"], r.reason["script"],
                                    r.reason["fetch"]>>]
        ELSE [r EXCEPT !.pc = NextTier(tier),
                       !.attempted = Append(@, NextTier(tier)),
                       !.script = IF NextTier(tier) = "script"
                                  THEN [NoScript EXCEPT !.appended = TRUE, !.inHead = TRUE]
                                  ELSE @]

LoadInit ==
    /\ cache = EmptyMap
    /\ loadingPromises = EmptyMap
    /\ loads = <<>>
    /\ extCache = [e \in ExtIds |-> EmptyMap]
    /\ lastIndex = [id \in PatternIds |-> 0]
    /\ pass = [p \in Passes |-> IdlePass]
    /\ factoryRun = NoRun
    /\ host = NoHost
    /\ \E url \in LoadUrls :
           loadRun = [NoLoad EXCEPT !.pc = "import", !.url = url, !.attempted = <<"import">>]

\* await import(url) fulfils
DynamicImportResolve ==
    /\ loadRun.pc = "import"
    /\ loadRun' = Succeed(loadRun, "import")
    /\ UNCHANGED <<loaderVars, factoryRun, host>>

\* await import(url) rejects: loadViaScriptTag(url) is called
DynamicImportReject ==
    /\ loadRun.pc = "import"
    /\ \E why \in ImportReasons : loadRun' = Fail(loadRun, "import", why)
    /\ UNCHANGED <<loaderVars, factoryRun, host>>

\* a handler of the script tier ran cleanup() on s; when cleanup did not
\* throw it settles the promise, which has an effect only while it is pending
Handler(s, tier_ok, why) ==
    LET c == [loadRun EXCEPT !.script = cleanup(s)]
    IN  IF ~s.inHead \/ s.settle # "pending" THEN c
        ELSE IF tier_ok
        THEN Succeed([c EXCEPT !.script.settle = "fulfilled"], "script")
        ELSE Fail([c EXCEPT !.script.settle = "rejected"], "script", why)

\* the module script runs: window[globalVarName] = module, then the
\* '<globalVarName>_loaded' event reaches the listener
ScriptLoaded ==
    /\ loadRun.script.appended
    /\ ~loadRun.script.ran /\ ~loadRun.script.errored
    /\ loadRun' = Handler([loadRun.script EXCEPT !.ran = TRUE, !.globalSet = TRUE],
                          TRUE, NoReason)
    /\ UNCHANGED <<loaderVars, factoryRun, host>>

\* script.onerror
ScriptError ==
    /\ loadRun.script.appended
    /\ ~loadRun.script.ran /\ ~loadRun.script.errored
    /\ loadRun' = Handler([loadRun.script EXCEPT !.errored = TRUE], FALSE, ScriptFailedMsg)
    /\ UNCHANGED <<loaderVars, factoryRun, host>>

\* the setTimeout callback, 10000 ms after the call; the timer is never cleared
ScriptTimeout ==
    /\ loadRun.script.appended
    /\ ~loadRun.script.timerFired
    /\ loadRun' = Handler([loadRun.script EXCEPT !.timerFired = TRUE], FALSE,
                          ScriptTimeoutMsg)
    /\ UNCHANGED <<loaderVars, factoryRun, host>>

\* loadViaFetchEval(url) fulfils
FetchResolve ==
    /\ loadRun.pc = "fetch"
    /\ loadRun' = Succeed(loadRun, "fetch")
    /\ UNCHANGED <<loaderVars, factoryRun, host>>

\* loadViaFetchEval(url) rejects: the response is not ok, the fetch fails or
\* the evaluation throws
FetchReject ==
    /\ loadRun.pc = "fetch"
    /\ \E why \in FetchReasons : loadRun' = Fail(loadRun, "fetch", FetchEvalMsg(why))
    /\ UNCHANGED <<loaderVars, factoryRun, host>>

LoadNext ==
    \/ DynamicImportResolve
    \/ DynamicImportReject
    \/ ScriptLoaded
    \/ ScriptError
    \/ ScriptTimeout
    \/ FetchResolve
    \/ FetchReject

LoadSpec == LoadInit /\ [][LoadNext]_vars

(***************************************************************************)
(* CodeExecutor (src/src/index.tsx:174-252): the renders of the component  *)
(* with its memo, effect, refs and state, and the passes it starts.  The   *)
(* parent decides when the component renders, with which code and          *)
(* dependencies, and which of the props are the same references as in the  *)
(* render before; the passes resolve in any order.                         *)
(***************************************************************************)
MaxStarted == 3

C_EMPTY  == Source(<<>>)
C_APP    == Source(<<DefaultFn("App")>>)
C_COOKIE == Source(<<Text("document.cookie"), DefaultFn("App")>>)

HostCodes == {C_EMPTY, C_APP, C_COOKIE}

\* config.dependencies: left out (the default {} of every render) or given
HostDeps == {[given |-> FALSE, entries |-> <<>>],
             [given |-> TRUE, entries |-> <<Dep(LODASH, Obj("O1"))>>]}

\* isCodeDifferent(prevCode, newCode); !prevCode holds for undefined and for ""
isCodeDifferent(prevCode, newCode) ==
    IF prevCode = Null THEN TRUE
    ELSE IF ~prevCode.isArray /\ prevCode.content = <<>> THEN TRUE
    ELSE IF ~prevCode.isArray /\ ~newCode.isArray THEN prevCode.content # newCode.content
    ELSE IF prevCode.isArray /\ newCode.isArray
    THEN \/ Len(prevCode.files) # Len(newCode.files)
         \/ \E i \in 1..Len(prevCode.files) : prevCode.files[i] # newCode.files[i]
    ELSE TRUE

\* isDependenciesDifferent(prevDeps = {}, newDeps = {})
isDependenciesDifferent(prevDeps, newDeps) ==
    LET prev == IF prevDeps = Null THEN EmptyMap
                ELSE ManualValues(prevDeps.entries, 1, EmptyMap)
        new  == ManualValues(newDeps.entries, 1, EmptyMap)
    IN  \/ Cardinality(DOMAIN prev) # Cardinality(DOMAIN new)
        \/ \E key \in DOMAIN prev : key \notin DOMAIN new \/ prev[key] # new[key]

\* executeCode for a batch that needs no load: the scan, then the pipeline
ExecuteSync(code, manual, bypassSecurity) ==
    LET files == CodeFiles(code)
        sec   == SecurityCheck(files, defaultSecurityPatterns, bypassSecurity, lastIndex)
    IN  IF sec.hit
        THEN Result(Null, ForbiddenMsg(files[sec.file].name,
                                       defaultSecurityPatterns[sec.pat].id), TRUE)
        ELSE RunPipeline(files, ManualValues(manual, 1, EmptyMap)).result

passStarted_Bypass(code, deps, bypassSecurity) ==
    [code |-> code, dependencies |-> deps, bypass |-> TRUE]

\* executeCode(code, dependencies, securityPatterns, bypassSecurity, {...}):
\* the call as the host made it
passStarted(code, deps, bypassSecurity) ==
    [code |-> code, dependencies |-> deps, bypass |-> bypassSecurity]

\* one render and the effects after it.  sameMemo: code, dependencies,
\* enableAutoDependencies and customDependencyRegistry are all the values of
\* the render before; sameRest: so are securityPatterns, onError,
\* allowedDomains and dependencyCache.  useMemo recomputes hasChanges from
\* the refs when one of its dependencies changed; the effect runs when one
\* of its dependencies changed and starts a pass if hasChanges.
Render(h, code, deps, sameMemo, sameRest) ==
    LET first == h.pc = "new"
        hc    == IF first \/ ~sameMemo
                 THEN \/ isCodeDifferent(h.prevCodeRef, code)
                      \/ isDependenciesDifferent(h.prevDependenciesRef, deps)
                 ELSE h.hasChanges
        runs  == first \/ ~sameMemo \/ ~sameRest \/ hc # h.hasChanges
    IN  [h EXCEPT !.pc = "mounted", !.code = code, !.dependencies = deps,
                  !.hasChanges = hc,
                  !.isLoading = IF runs /\ hc THEN TRUE ELSE @,
                  !.started = IF runs /\ hc
                              THEN Append(@, passStarted(code, deps, FALSE))
                              ELSE @]

\* a pass whose input is no longer the current one is dropped
Settle_IfCurrent(h, q) ==
    IF h.started[q].code = h.code /\ h.started[q].dependencies = h.dependencies
    THEN [h EXCEPT !.executionResult = ExecuteSync(h.started[q].code,
                                           h.started[q].dependencies.entries,
                                           h.started[q].bypass),
                   !.heldFrom = q,
                   !.prevCodeRef = h.started[q].code,
                   !.prevDependenciesRef = h.started[q].dependencies,
                   !.isLoading = FALSE,
                   !.resolved = Append(@, q)]
    ELSE [h EXCEPT !.resolved = Append(@, q)]

\* executeAsync, or handleBypassSecurity, after its await:
\* setExecutionResult(result), prevCodeRef.current = code,
\* prevDependenciesRef.current = dependencies, finally setIsLoading(false);
\* code and dependencies are those of the render that started the pass.
\* executeCode catches every error and resolves with a result, so the catch
\* block of the caller, the one place of a pass that calls onError, is not
\* entered.
Settle(h, q) ==
    [h EXCEPT !.executionResult = ExecuteSync(h.started[q].code,
                                      h.started[q].dependencies.entries,
                                      h.started[q].bypass),
              !.heldFrom = q,
              !.prevCodeRef = h.started[q].code,
              !.prevDependenciesRef = h.started[q].dependencies,
              !.isLoading = FALSE,
              !.resolved = Append(@, q)]

\* the passes started and not yet resolved
InFlight(h) == {q \in 1..Len(h.started) : \A i \in 1..Len(h.resolved) : h.resolved[i] # q}

HostInit ==
    /\ cache = EmptyMap
    /\ loadingPromises = EmptyMap
    /\ loads = <<>>
    /\ extCache = [e \in ExtIds |-> EmptyMap]
    /\ lastIndex = [id \in PatternIds |-> 0]
    /\ pass = [p \in Passes |-> IdlePass]
    /\ factoryRun = NoRun
    /\ loadRun = NoLoad
    /\ host = [NoHost EXCEPT !.pc = "new"]

\* the component renders: on mount, after a state change, or because its
\* parent rendered, with the same or with new props
HostRender ==
    /\ host.pc \in {"new", "mounted"}
    /\ \E code \in HostCodes, deps \in HostDeps, sameMemo \in BOOLEAN, sameRest \in BOOLEAN :
           /\ sameMemo => (host.pc = "mounted" /\ code = host.code
                            /\ deps = host.dependencies /\ deps.given)
           /\ Len(Render(host, code, deps, sameMemo, sameRest).started) <= MaxStarted
           /\ host' = Render(host, code, deps, sameMemo, sameRest)
    /\ UNCHANGED <<loaderVars, factoryRun, loadRun>>

\* the executeCode call of a pass in flight resolves
PassResolve ==
    /\ \E q \in InFlight(host) : host' = Settle(host, q)
    /\ UNCHANGED <<loaderVars, factoryRun, loadRun>>

\* the click on "Continue Anyway", the button of the error view of a
\* forbidden-pattern result: setIsLoading(true) and executeCode(..., true, ...)
\* on the code and dependencies of the last render
handleBypassSecurity ==
    /\ host.pc = "mounted"
    /\ ~host.isLoading
    /\ host.executionResult.error # Null
    /\ host.executionResult.forbiddenPatterns
    /\ Len(host.started) < MaxStarted
    /\ host' = [host EXCEPT !.isLoading = TRUE,
                            !.started = Append(@, passStarted(host.code, host.dependencies,
                                                              TRUE))]
    /\ UNCHANGED <<loaderVars, factoryRun, loadRun>>

\* the message of an error the component throws while it renders
RenderErrorMsg == [kind |-> "render"]

ErrorReport_KeepComponent(prev, message) == [prev EXCEPT !.error = message]

\* setExecutionResult(prev => ({...prev, error: error.message, Component: null}))
ErrorReport(prev, message) == [prev EXCEPT !.error = message, !.Component = Null]

\* the component shown inside the ErrorBoundary throws while it renders:
\* componentDidCatch calls handleExecutionError, which calls onError
handleExecutionError ==
    /\ host.pc = "mounted"
    /\ ~host.isLoading
    /\ host.executionResult.error = Null
    /\ host.executionResult.Component # Null
    /\ host' = [host EXCEPT !.executionResult = ErrorReport(@, RenderErrorMsg),
                            !.reported = @ \cup {RenderErrorMsg}]
    /\ UNCHANGED <<loaderVars, factoryRun, loadRun>>

HostNext ==
    \/ HostRender
    \/ PassResolve
    \/ handleBypassSecurity
    \/ handleExecutionError

HostSpec == HostInit /\ [][HostNext]_vars

(***************************************************************************)
(* The host under fixed inputs: code, dependencies and configuration keep  *)
(* their values over all renders; host.stable names the config objects     *)
(* that also keep their reference, the others are re-created by every      *)
(* render.  Only the passes in flight are kept.                            *)
(***************************************************************************)
ConfigObjects == {"dependencies", "customDependencyRegistry", "allowedDomains",
                  "securityPatterns"}

\* a config.dependencies that is left out is the default {} of each render
FixedInit ==
    /\ cache = EmptyMap
    /\ loadingPromises = EmptyMap
    /\ loads = <<>>
    /\ extCache = [e \in ExtIds |-> EmptyMap]
    /\ lastIndex = [id \in PatternIds |-> 0]
    /\ pass = [p \in Passes |-> IdlePass]
    /\ factoryRun = NoRun
    /\ loadRun = NoLoad
    /\ \E code \in HostCodes, deps \in HostDeps, st \in SUBSET ConfigObjects :
           /\ "dependencies" \in st => deps.given
           /\ host = [NoHost EXCEPT !.pc = "new", !.code = code, !.dependencies = deps,
                                    !.stable = st]

\* the passes that have resolved are dropped from the record of the passes
Forget(h) ==
    [h EXCEPT !.started = SelectSeq(@, LAMBDA e : FALSE)
                            \o [i \in 1..Cardinality(InFlight(h)) |-> h.started[1]],
              !.resolved = <<>>, !.heldFrom = 0]

\* a render with the fixed inputs: on mount, or after a state change
FixedRender ==
    /\ host.pc \in {"new", "mounted"}
    /\ LET sameMemo == /\ host.pc = "mounted"
                       /\ {"dependencies", "customDependencyRegistry"} \subseteq host.stable
           sameRest == {"allowedDomains", "securityPatterns"} \subseteq host.stable
           next     == Render(host, host.code, host.dependencies, sameMemo, sameRest)
       IN  /\ Len(next.started) <= MaxStarted
           /\ host' = next
    /\ UNCHANGED <<loaderVars, factoryRun, loadRun>>

\* the executeCode call of a pass in flight resolves
FixedResolve ==
    /\ \E q \in InFlight(host) : host' = Forget(Settle(host, q))
    /\ UNCHANGED <<loaderVars, factoryRun, loadRun>>

FixedNext ==
    \/ FixedRender
    \/ FixedResolve

\* a state change is followed by a render, and every executeCode call
\* settles.  The second condition is WF_vars(FixedResolve) written out:
\* FixedResolve is enabled exactly when a pass is in flight, and it always
\* changes the state.
FixedSpec ==
    /\ FixedInit
    /\ [][FixedNext]_vars
    /\ WF_vars(FixedRender)
    /\ ([]<>(InFlight(host) = {}) \/ []<><<FixedResolve>>_vars)

(***************************************************************************)
(* Properties                                                              *)
(***************************************************************************)
In(p) == Scenarios[pass[p].sc]

Started(p) == pass[p].pc # "idle"

Done(p) == pass[p].pc = "done"

AllCalls(p) == pass[p].manualCalls \o pass[p].autoCalls

\* the pattern occurs somewhere in the content
Occurs(pat, content) == \E i \in 1..Len(content) : content[i].tok = pat.tok

\* the first file, in batch order, in which some pattern occurs
FirstMatchFile(in) ==
    SetMin({f \in 1..Len(in.code) :
        \E j \in 1..Len(in.securityPatterns) : Occurs(in.securityPatterns[j], in.code[f].content)})

\* the first pattern, in list order, that occurs in that file
FirstMatchPattern(in) ==
    SetMin({j \in 1..Len(in.securityPatterns) :
        Occurs(in.securityPatterns[j], in.code[FirstMatchFile(in)].content)})

AnyMatch(in) ==
    \E f \in 1..Len(in.code) : \E j \in 1..Len(in.securityPatterns) :
        Occurs(in.securityPatterns[j], in.code[f].content)

\* C1: a pass without bypass whose batch contains a file in which a security
\* pattern occurs ends rejected, naming the first such file and its first
\* pattern, and has started no load, no transformation and no evaluation
C1_ScanRejects ==
    \A p \in Passes :
        (Started(p) /\ ~pass[p].bypass /\ AnyMatch(In(p))) =>
            /\ Done(p)
            /\ pass[p].result =
                   Result(Null,
                          ForbiddenMsg(In(p).code[FirstMatchFile(In(p))].name,
                                       In(p).securityPatterns[FirstMatchPattern(In(p))].id),
                          TRUE)
            /\ AllCalls(p) = <<>>
            /\ ~pass[p].transformed
            /\ ~pass[p].evaluated

\* C2: a bypass re-run of a rejected batch is never rejected by the scan, and
\* when nothing else fails it ends with a component and no error
C2_BypassSkipsScan ==
    \A p \in Passes :
        pass[p].bypass =>
            /\ ~pass[p].result.forbiddenPatterns
            /\ pass[p].failedAt # "security"
            /\ (Done(p) /\ pass[p].failedAt = "none") =>
                   /\ pass[p].result.Component.kind = "component"
                   /\ pass[p].result.error = Null

\* a bypass re-run of a rejected batch that ended with its component
C2_Witness ==
    \E p, q \in Passes :
        /\ pass[q].result.forbiddenPatterns
        /\ pass[p].bypass /\ pass[p].sc = pass[q].sc
        /\ Done(p)
        /\ pass[p].result.Component.kind = "component"

\* C3: the promise of executeCode never rejects, and a pass that ended holds
\* a result with a component or an error
C3_NeverRejects ==
    \A p \in Passes :
        /\ pass[p].settle # "rejected"
        /\ Done(p) =>
              /\ pass[p].settle = "fulfilled"
              /\ pass[p].result.forbiddenPatterns \in BOOLEAN
              /\ (pass[p].result.Component = Null) => (pass[p].result.error # Null)

C3_Witness ==
    \E p, q \in Passes :
        /\ Done(p) /\ pass[p].failedAt = "deps"
        /\ Done(q) /\ pass[q].failedAt \in {"transform", "compile"}

\* C4 as stated: every failed pass ends with no component and an error
C4_Original ==
    \A p \in Passes :
        (Done(p) /\ pass[p].failedAt # "none") =>
            /\ pass[p].result.Component = Null
            /\ pass[p].result.error # Null

\* C4: a pass that fails in the scan, the resolution, the transformation or
\* the compilation ends with no component and an error; a pass whose
\* instantiation throws or finds no component ends with the fallback error
\* component and no error
C4_FatalErrors ==
    \A p \in Passes :
        Done(p) =>
            /\ pass[p].failedAt \in {"security", "deps", "transform", "compile"} =>
                  /\ pass[p].result.Component = Null
                  /\ pass[p].result.error # Null
                  /\ pass[p].result.forbiddenPatterns = (pass[p].failedAt = "security")
            /\ pass[p].failedAt \in {"instantiate", "nocomponent"} =>
                  /\ pass[p].result.Component = ErrorComponent
                  /\ pass[p].result.error = Null
                  /\ ~pass[p].result.forbiddenPatterns

C4_Witness ==
    \E p, q \in Passes :
        /\ Done(p) /\ pass[p].failedAt = "nocomponent"
        /\ Done(q) /\ pass[q].failedAt = "instantiate"

\* C5: in the returned map every manual specifier is bound to its manual
\* value, or to the module its manual URL resolved to
C5_ManualWins ==
    \A p \in Passes :
        pass[p].returned =>
            \A i \in 1..Len(In(p).dependencies) :
                LET k == In(p).dependencies[i].key
                    v == In(p).dependencies[i].value
                IN  /\ k \in DOMAIN pass[p].deps
                    /\ IF IsUrlString(v)
                       THEN \E c \in 1..Len(pass[p].manualCalls) :
                               /\ pass[p].manualCalls[c].key = k
                               /\ pass[p].manualCalls[c].url = v
                               /\ pass[p].deps[k] = CallValue(pass[p].manualCalls[c])
                       ELSE pass[p].deps[k] = v

C5_Witness ==
    \E p, q \in Passes :
        /\ pass[p].returned /\ In(p) = S_MANURL
        /\ LODASH \in DOMAIN pass[p].auto
        /\ pass[p].auto[LODASH].url = U_LODASH
        /\ pass[p].deps[LODASH].url = U_SUB
        /\ pass[q].returned /\ In(q) = S_MANOBJ
        /\ LODASH \in DOMAIN pass[q].auto
        /\ pass[q].deps[LODASH] = Obj("O1")

\* C6 as stated: a manual URL whose host is not allowed makes the resolution
\* fail with the domain rejection, and the pass starts no load of it
C6_DomainRejected ==
    \A p \in Passes :
        (Started(p) /\ pass[p].failedAt # "security") =>
            \A i \in 1..Len(In(p).dependencies) :
                LET v == In(p).dependencies[i].value
                IN  (IsUrlString(v) /\ ~DomainOk(v, In(p).allowedDomains)) =>
                        /\ \A c \in 1..Len(AllCalls(p)) :
                               AllCalls(p)[c].url = v => ~AllCalls(p)[c].started
                        /\ pass[p].pc # "awaitAuto"
                        /\ Done(p) =>
                              /\ pass[p].failedAt = "deps"
                              /\ pass[p].result.error.kind = "Failed to load manual dependency"
                              /\ pass[p].result.error.inner.kind =
                                     "Invalid URL or domain not allowed"

Waiting(p) ==
    {i \in 1..Len(AllCalls(p)) :
        AllCalls(p)[i].out = "wait" /\ loads[AllCalls(p)[i].load].status = "pending"}

\* C7: at most one load of a URL is in flight, and every call that waits for
\* a URL while its load is in flight waits for that one load
C7_OneLoadInFlight ==
    /\ \A l, m \in 1..Len(loads) :
           (loads[l].url = loads[m].url /\ loads[l].status = "pending"
               /\ loads[m].status = "pending") => l = m
    /\ \A p, q \in Passes : \A i \in Waiting(p), j \in Waiting(q) :
           AllCalls(p)[i].url = AllCalls(q)[j].url =>
               /\ AllCalls(p)[i].load = AllCalls(q)[j].load
               /\ loadingPromises[AllCalls(p)[i].url] = AllCalls(p)[i].load
    /\ \A p, q \in Passes : \A i \in 1..Len(AllCalls(p)), j \in 1..Len(AllCalls(q)) :
           (AllCalls(p)[i].out = "wait" /\ AllCalls(q)[j].out = "wait"
               /\ AllCalls(p)[i].load = AllCalls(q)[j].load
               /\ CallState(AllCalls(p)[i], loads) = "ok") =>
                   /\ CallValue(AllCalls(p)[i]) = CallValue(AllCalls(q)[j])
                   /\ cache[AllCalls(p)[i].url] = CallValue(AllCalls(q)[j])

C7_Witness ==
    \E p, q \in Passes : \E i \in Waiting(p), j \in Waiting(q) :
        /\ p # q
        /\ AllCalls(p)[i].load = AllCalls(q)[j].load
        /\ AllCalls(p)[i].started
        /\ ~AllCalls(q)[j].started

\* C8 as stated: a call for a URL whose load has succeeded returns the
\* module of the internal cache and starts no load
C8_Original ==
    \A p \in Passes : \A i \in 1..Len(AllCalls(p)) :
        AllCalls(p)[i].cached =>
            /\ AllCalls(p)[i].out = "value"
            /\ ~AllCalls(p)[i].started
            /\ AllCalls(p)[i].val = cache[AllCalls(p)[i].url]

\* C8: a call for a URL that its external cache holds returns that cache's
\* value, and otherwise a call for a URL whose load has succeeded returns the
\* module of the internal cache; neither starts a load, so a URL is loaded
\* successfully at most once and has no load in flight once it is cached
C8_CachedNoReload ==
    /\ \A p \in Passes : \A i \in 1..Len(AllCalls(p)) :
           LET c == AllCalls(p)[i]
           IN  (c.cached \/ c.extHit) =>
                   /\ c.out = "value"
                   /\ ~c.started
                   /\ c.val = IF c.extHit THEN extCache[In(p).dependencyCache][c.url]
                              ELSE cache[c.url]
    /\ \A l, m \in 1..Len(loads) :
           (loads[l].url = loads[m].url /\ loads[l].status = "ok") => m <= l
    /\ \A l \in 1..Len(loads) :
           loads[l].status = "pending" => loads[l].url \notin DOMAIN cache

C8_Witness ==
    \E p \in Passes : \E i \in 1..Len(AllCalls(p)) :
        /\ AllCalls(p)[i].cached
        /\ ~AllCalls(p)[i].extHit
        /\ AllCalls(p)[i].val = cache[AllCalls(p)[i].url]
        /\ \E q \in Passes : \E j \in 1..Len(AllCalls(q)) : AllCalls(q)[j].extHit

FailedManual(p) ==
    {i \in 1..Len(pass[p].manualCalls) : CallState(pass[p].manualCalls[i], loads) = "failed"}

\* C9: a pass with a failed manual URL load never returns a dependency map,
\* never transforms or evaluates, and ends with no component and the error
\* naming a failed dependency and its URL
C9_ManualFailureFatal ==
    \A p \in Passes :
        FailedManual(p) # {} =>
            /\ pass[p].pc \in {"awaitManual", "done"}
            /\ ~pass[p].returned
            /\ ~pass[p].transformed
            /\ ~pass[p].evaluated
            /\ pass[p].autoCalls = <<>>
            /\ Done(p) =>
                  /\ pass[p].failedAt = "deps"
                  /\ pass[p].result.Component = Null
                  /\ ~pass[p].result.forbiddenPatterns
                  /\ \E i \in FailedManual(p) :
                         pass[p].result.error =
                             ManualFailMsg(pass[p].manualCalls[i].key,
                                           pass[p].manualCalls[i].url,
                                           CallError(pass[p].manualCalls[i]))

C9_Witness ==
    \E p \in Passes : \E i \in FailedManual(p) :
        /\ Done(p)
        /\ pass[p].manualCalls[i].out = "wait"
        /\ pass[p].result.error =
               ManualFailMsg(pass[p].manualCalls[i].key, pass[p].manualCalls[i].url,
                             LoadFailedMsg(pass[p].manualCalls[i].url))

FailedAuto(p) ==
    {i \in 1..Len(pass[p].autoCalls) : CallState(pass[p].autoCalls[i], loads) = "failed"}

ManualKeys(in) == {in.dependencies[i].key : i \in 1..Len(in.dependencies)}

ImportsOf(files, spec) ==
    {<<f, i>> \in (1..Len(files)) \X (1..3) :
        i <= Len(files[f].content) /\ files[f].content[i].k = "import"
            /\ files[f].content[i].spec = spec}

\* C10 as stated: the specifier of a failed auto load is absent from the
\* returned map and every import of it fails with 'Module not found'
C10_Original ==
    \A p \in Passes : \A i \in FailedAuto(p) :
        pass[p].returned =>
            /\ pass[p].autoCalls[i].key \notin DOMAIN pass[p].deps
            /\ \A x \in ImportsOf(In(p).code, pass[p].autoCalls[i].key) :
                   RewriteImport(In(p).code[x[1]].content[x[2]], DOMAIN pass[p].deps,
                                 In(p).code).error
                       = ModuleNotFoundMsg(pass[p].autoCalls[i].key)

\* C10: a failed auto load does not fail the resolution; every other
\* dependency is in the returned map; the specifier is absent from it unless
\* a manual dependency supplies it; when it is absent, an import of it that
\* declares bindings fails with 'Module not found' and fails the pass, unless
\* the specifier is the host framework or the name of a file of the batch
C10_AutoFailureNonFatal ==
    \A p \in Passes : \A i \in FailedAuto(p) :
        LET k == pass[p].autoCalls[i].key
        IN  /\ Done(p) => (pass[p].returned /\ pass[p].failedAt # "deps")
            /\ pass[p].returned =>
                  /\ (k \in DOMAIN pass[p].deps) = (k \in ManualKeys(In(p)))
                  /\ \A j \in 1..Len(pass[p].autoCalls) :
                         CallState(pass[p].autoCalls[j], loads) = "ok" =>
                             pass[p].autoCalls[j].key \in DOMAIN pass[p].deps
                  /\ ManualKeys(In(p)) \subseteq DOMAIN pass[p].deps
                  /\ \A x \in ImportsOf(In(p).code, k) :
                         LET st == In(p).code[x[1]].content[x[2]]
                         IN  (k \notin ManualKeys(In(p)) /\ st.nb > 0 /\ k # REACT
                                 /\ normalizeFilename(k) \notin LocalNames(In(p).code)) =>
                                 /\ RewriteImport(st, DOMAIN pass[p].deps, In(p).code).error
                                        = ModuleNotFoundMsg(k)
                                 /\ pass[p].failedAt = "transform"
                                 /\ pass[p].result.Component = Null
                                 /\ pass[p].result.error # Null

C10_Witness ==
    \E p \in Passes : \E i \in FailedAuto(p) :
        /\ pass[p].returned
        /\ pass[p].autoCalls[i].out = "wait"
        /\ pass[p].autoCalls[i].key \notin DOMAIN pass[p].deps
        /\ pass[p].result.error = ModuleNotFoundMsg(pass[p].autoCalls[i].key)
        /\ \E j \in 1..Len(pass[p].autoCalls) :
               /\ CallState(pass[p].autoCalls[j], loads) = "ok"
               /\ pass[p].autoCalls[j].key \in DOMAIN pass[p].deps

\* C11: a pass transforms only when every load it issued or joined has
\* settled, and its dependency map then holds every one that succeeded
C11_JoinBeforeTransform ==
    \A p \in Passes :
        pass[p].transformed =>
            /\ pass[p].returned
            /\ \A i \in 1..Len(AllCalls(p)) :
                   /\ CallState(AllCalls(p)[i], loads) # "pending"
                   /\ CallState(AllCalls(p)[i], loads) = "ok" =>
                          AllCalls(p)[i].key \in DOMAIN pass[p].deps
            /\ \A i \in 1..Len(pass[p].autoCalls) :
                   (CallState(pass[p].autoCalls[i], loads) = "ok"
                       /\ pass[p].autoCalls[i].key \notin ManualKeys(In(p))) =>
                           pass[p].deps[pass[p].autoCalls[i].key]
                               = CallValue(pass[p].autoCalls[i])

\* a pass that transformed after waiting for a manual and for an auto load
C11_Witness ==
    \E p \in Passes :
        /\ pass[p].transformed
        /\ \E i \in 1..Len(pass[p].manualCalls) : pass[p].manualCalls[i].out = "wait"
        /\ \E i \in 1..Len(pass[p].autoCalls) :
               /\ pass[p].autoCalls[i].out = "wait"
               /\ CallState(pass[p].autoCalls[i], loads) = "ok"

RECURSIVE SumNb(_, _, _)
SumNb(content, name, i) ==
    IF i > Len(content) THEN 0
    ELSE SumNb(content, name, i + 1)
         + (IF CallsGetModule(content[i]) /\ normalizeFilename(content[i].spec) = name
            THEN content[i].nb ELSE 0)

RECURSIVE ImportBindings(_, _, _)
ImportBindings(files, name, f) ==
    IF f > Len(files) THEN 0
    ELSE SumNb(files[f].content, name, 1) + ImportBindings(files, name, f + 1)

\* C13: once getModule has returned for a name, the factory of that name is
\* not invoked again and every later getModule of the name returns the same
\* exports object, the one the registry holds
C13_CachedExports ==
    [][\A n \in DOMAIN factoryRun.got :
          /\ Count(factoryRun'.invoked, n) = Count(factoryRun.invoked, n)
          /\ Cardinality(factoryRun.got[n]) = 1
          /\ factoryRun.got[n] = {factoryRun.moduleCache[n]}
          /\ factoryRun'.got[n] = factoryRun.got[n]]_vars

\* a finished run in which a module that is imported through two or more
\* bindings was instantiated once
C13_Witness ==
    /\ factoryRun.pc = "done"
    /\ factoryRun.failed = "none"
    /\ \E n \in DOMAIN factoryRun.got :
           /\ ImportBindings(factoryRun.files, n, 1) >= 2
           /\ factoryRun.invoked[n] = 1
           /\ factoryRun.got[n] = {<<n, 1>>}

\* C14 as stated: no module factory is invoked twice in one run, also when
\* getModule is re-entered for a module whose factory is still running
C14_FactoryOnce ==
    \A n \in DOMAIN factoryRun.invoked : factoryRun.invoked[n] <= 1

\* file f imports, with bindings, the module that file g is registered under
ImportsFile(files, f, g) ==
    \E i \in 1..Len(files[f].content) :
        /\ CallsGetModule(files[f].content[i])
        /\ normalizeFilename(files[f].content[i].spec) = normalizeFilename(files[g].name)

MutualImport(files) ==
    \E f, g \in 1..Len(files) :
        f # g /\ ImportsFile(files, f, g) /\ ImportsFile(files, g, f)

\* C15 as stated: a run over two files that import each other ends without
\* an error, with the component of the entry module
C15_CycleTerminates ==
    (factoryRun.pc = "done" /\ MutualImport(factoryRun.files)) =>
        /\ factoryRun.failed = "none"
        /\ factoryRun.Component.kind = "component"
        /\ factoryRun.from = EntryIndex(factoryRun.files)

\* C19 as stated: the module whose exports are searched for the component is
\* the first file marked isEntry, or the first file when none is marked, and
\* a source string is the one-file batch index.tsx
C19_EntryModule ==
    factoryRun.from # 0 =>
        /\ factoryRun.from = EntryIndex(factoryRun.files)
        /\ (\A f \in 1..Len(factoryRun.files) : ~factoryRun.files[f].isEntry) =>
               factoryRun.from = 1
        /\ \A f \in 1..Len(factoryRun.files) :
               factoryRun.files[f].isEntry => factoryRun.from <= f

\* the claim's component test: callable, and an upper-case first letter or
\* element construction in the text
LooksLikeComponent(value) ==
    /\ value.callable
    /\ (FirstChar(value.name) \in UpperCaseLetters \/ value.evidence)

\* C20 as stated: the component is the default export when that is callable,
\* else the first own property of the entry exports that is callable and has
\* an upper-case first letter or element construction in its text; when
\* there is none the search fails
C20_ComponentChoice ==
    factoryRun.from # 0 =>
        LET file == factoryRun.files[factoryRun.from]
            ex   == ExportsOf(file)
            ds   == {i \in 1..Len(ex) : ex[i].key = "default" /\ ex[i].val.callable}
            cs   == {i \in 1..Len(ex) : LooksLikeComponent(ex[i].val)}
        IN  IF ds # {}
            THEN factoryRun.Component = Component(file.name, ex[SetMin(ds)].val.name)
            ELSE IF cs # {}
            THEN factoryRun.Component = Component(file.name, ex[SetMin(cs)].val.name)
            ELSE factoryRun.Component = ErrorComponent

\* the import statements of a batch, as <<file, statement>> positions
ImportsIn(files) ==
    UNION {{<<f, i>> : i \in {j \in 1..Len(files[f].content) :
                                  files[f].content[j].k = "import"}} : f \in 1..Len(files)}

StmtAt(files, x) == files[x[1]].content[x[2]]

\* the specifier is not the host framework, no file of the batch and no key
\* of the dependency map
Unresolvable(files, deps, spec) ==
    /\ spec # REACT
    /\ normalizeFilename(spec) \notin LocalNames(files)
    /\ spec \notin DOMAIN deps

FirstOf(S) ==
    CHOOSE x \in S : \A y \in S : x[1] < y[1] \/ (x[1] = y[1] /\ x[2] <= y[2])

HasSyntax(files) ==
    \E f \in 1..Len(files) :
        \/ \E i \in 1..Len(files[f].content) : files[f].content[i].k = "syntax"
        \/ ~removeDefaultExport(files[f].content).parses

\* C16 as stated: every import of an unresolvable specifier, whatever its
\* bindings, fails the pass with 'Module not found' naming the specifier,
\* before any code of the batch is evaluated
C16_Original ==
    \A p \in Passes :
        pass[p].returned =>
            \A x \in ImportsIn(In(p).code) :
                Unresolvable(In(p).code, pass[p].deps, StmtAt(In(p).code, x).spec) =>
                    /\ pass[p].failedAt = "transform"
                    /\ pass[p].result.error = ModuleNotFoundMsg(StmtAt(In(p).code, x).spec)
                    /\ ~pass[p].evaluated

\* C16: a pass whose batch imports, with bindings, an unresolvable specifier
\* fails in the transformation and evaluates nothing: with 'Module not found'
\* naming the first such specifier in batch order, or with the parse error of
\* a file; an unresolvable import without bindings is left in place and
\* fails the pass when the generated code is compiled
C16_ModuleNotFound ==
    \A p \in Passes :
        pass[p].returned =>
            LET files == In(p).code
                bad   == {x \in ImportsIn(files) :
                             /\ StmtAt(files, x).nb > 0
                             /\ Unresolvable(files, pass[p].deps, StmtAt(files, x).spec)}
                bare  == {x \in ImportsIn(files) :
                             /\ StmtAt(files, x).nb = 0
                             /\ Unresolvable(files, pass[p].deps, StmtAt(files, x).spec)}
            IN  /\ bad # {} =>
                       /\ pass[p].failedAt = "transform"
                       /\ ~pass[p].evaluated
                       /\ pass[p].result.Component = Null
                       /\ pass[p].result.error \in
                              {ModuleNotFoundMsg(StmtAt(files, FirstOf(bad)).spec)}
                                  \cup {SyntaxErrorMsg(files[f].name) : f \in 1..Len(files)}
                       /\ ~HasSyntax(files) =>
                              pass[p].result.error.kind = "Module not found"
                /\ (bad = {} /\ bare # {} /\ ~HasSyntax(files)) =>
                       /\ pass[p].failedAt = "compile"
                       /\ ~pass[p].evaluated
                       /\ pass[p].result.Component = Null
                       /\ pass[p].result.error = CompileErrorMsg

\* one pass failed on the first of two unresolvable imports, another on an
\* import without bindings
C16_Witness ==
    \E p, q \in Passes :
        /\ pass[p].returned /\ pass[p].failedAt = "transform"
        /\ \E x, y \in ImportsIn(In(p).code) :
               /\ x # y
               /\ Unresolvable(In(p).code, pass[p].deps, StmtAt(In(p).code, x).spec)
               /\ Unresolvable(In(p).code, pass[p].deps, StmtAt(In(p).code, y).spec)
               /\ pass[p].result.error = ModuleNotFoundMsg(StmtAt(In(p).code, x).spec)
        /\ pass[q].returned /\ pass[q].failedAt = "compile"

\* '@scope/*' admits '@scope/sub': dep.endsWith('/*') and the specifier
\* starts with the key without its last two characters
UnderWildcard(key, spec) == key.base = "*" /\ key.pre # "" /\ spec.pre = key.pre

\* C17 as stated: an import whose specifier is under a '/*' key of the
\* dependency map is rewritten to property accesses on that entry and does
\* not fail the pass with 'Module not found'
C17_WildcardAdmits ==
    \A p \in Passes :
        pass[p].returned =>
            \A x \in ImportsIn(In(p).code) :
                LET st == StmtAt(In(p).code, x)
                IN  (st.nb > 0 /\ \E k \in DOMAIN pass[p].deps : UnderWildcard(k, st.spec)) =>
                        /\ RewriteImport(st, DOMAIN pass[p].deps, In(p).code).to = "dependency"
                        /\ pass[p].result.error # ModuleNotFoundMsg(st.spec)

\* a bare specifier of the merged registry that the pass detects and that
\* has no manual entry, with auto-detection enabled
AutoLoadable(in, spec) ==
    /\ in.enableAutoDependencies
    /\ IsBare(spec)
    /\ spec \in DOMAIN POPULAR_DEPENDENCIES \cup DOMAIN in.customDependencyRegistry
    /\ spec \notin ManualKeys(in)

RegistryUrl(in, spec) ==
    IF spec \in DOMAIN in.customDependencyRegistry
    THEN in.customDependencyRegistry[spec] ELSE POPULAR_DEPENDENCIES[spec]

DefaultShapes(content) ==
    {i \in 1..Len(content) : content[i].k \in {"defaultFn", "defaultFnNested", "defaultConst"}}

\* C21: for every file of a transformed batch with a default export in a
\* supported shape, the export info has hasDefaultExport = TRUE and
\* exportedName equal to the exported identifier
C21_DefaultExportInfo ==
    \A p \in Passes :
        pass[p].transformed =>
            \A f \in 1..Len(In(p).code) :
                LET c == In(p).code[f].content
                IN  \A i \in DefaultShapes(c) :
                        DefaultShapes(c) = {i} =>
                            /\ ExportInfo(c).hasDefaultExport
                            /\ ExportInfo(c).exportedName = c[i].tok

\* two files of the batch have the same normalized name
NameCollision(files) ==
    \E f, g \in 1..Len(files) :
        f # g /\ normalizeFilename(files[f].name) = normalizeFilename(files[g].name)

\* C22: the call of the generated factory for a batch in which two files
\* have the same normalized name ends with an error, not with a component
C22_CollisionRejected ==
    (factoryRun.pc = "done" /\ NameCollision(factoryRun.files)) =>
        factoryRun.failed # "none"

\* the properties of an exports object
PropsOf(ex) == {ex[i] : i \in 1..Len(ex)}

\* the file whose factory is registered under a normalized name
Registered(name) == factoryRun.files[DefinitionOf(factoryRun.files, name)]

\* C28: the exports object a module factory returned holds every tracked
\* named export whose identifier is defined in the module, with the value of
\* that identifier, also when the module has a default export
C28_NamedExportsKept ==
    \A n \in DOMAIN factoryRun.exports :
        LET c    == Registered(n).content
            info == ExportInfo(c)
        IN  \A i \in 1..Len(info.namedExports) :
                Defined(c, info.namedExports[i]) =>
                    Prop(info.namedExports[i], Lookup(c, info.namedExports[i]))
                        \in PropsOf(factoryRun.exports[n])

\* the same for the modules without a default export, which is what the code does
C28_WithoutDefault ==
    \A n \in DOMAIN factoryRun.exports :
        LET c    == Registered(n).content
            info == ExportInfo(c)
        IN  ~info.hasDefaultExport =>
                \A i \in 1..Len(info.namedExports) :
                    Defined(c, info.namedExports[i]) =>
                        Prop(info.namedExports[i], Lookup(c, info.namedExports[i]))
                            \in PropsOf(factoryRun.exports[n])

\* C29: for a module with  export { a, b as c }  an importing file that
\* requests c receives the value of b, and one that requests a receives a
C29_AliasResolved ==
    \A b \in factoryRun.bound :
        LET c == Registered(b.source).content
        IN  \A i \in 1..Len(c) :
                (c[i].k = "exportAs" /\ c[i].tok = b.imported /\ Defined(c, c[i].id)) =>
                    b.value = Lookup(c, c[i].id)

\* the same for the names exported without an alias from a module without a
\* default export
C29_Unaliased ==
    \A b \in factoryRun.bound :
        LET c == Registered(b.source).content
        IN  \A i \in 1..Len(c) :
                (/\ c[i].k = "exportAs" /\ c[i].tok = b.imported /\ Defined(c, c[i].id)
                 /\ c[i].id = c[i].tok /\ ~ExportInfo(c).hasDefaultExport) =>
                    b.value = Lookup(c, c[i].id)

\* C30: the safe-name mapping is collision-safe: within one pass, distinct
\* dependency keys get distinct variables, so the generated code declares no
\* variable twice and a pass does not fail to compile because of its
\* dependency keys
C30_SafeNamesDistinct ==
    \A p \in Passes :
        pass[p].transformed =>
            /\ \A k1, k2 \in DOMAIN pass[p].deps :
                   k1 # k2 => safeName(k1) # safeName(k2)
            /\ pass[p].failedAt = "compile" => CompileFails(In(p).code)

(***************************************************************************)
(* Loader tiers                                                            *)
(***************************************************************************)
\* the position of a tier in the order of the tiers
TierIndex(tier) == CHOOSE i \in 1..Len(Tiers) : Tiers[i] = tier

\* C23: the tiers are attempted strictly in the order dynamic import,
\* script tag, fetch-and-evaluate; a tier is attempted only after every
\* earlier tier has failed, and none is attempted after one has succeeded
C23_TiersInOrder ==
    /\ loadRun.attempted = SubSeq(Tiers, 1, Len(loadRun.attempted))
    /\ \A t \in TierNames :
           /\ loadRun.status[t] # "none" =>
                  \E i \in 1..Len(loadRun.attempted) : loadRun.attempted[i] = t
           /\ \A i \in 1..Len(loadRun.attempted) :
                  (loadRun.attempted[i] = t /\ loadRun.status[t] = "ok") =>
                      i = Len(loadRun.attempted)
    /\ \A i \in 1..Len(loadRun.attempted) :
           \A j \in 1..(i - 1) : loadRun.status[loadRun.attempted[j]] = "failed"

\* the load succeeded in the third tier after the first two had failed
C23_Witness ==
    /\ loadRun.pc = "done" /\ loadRun.settle = "fulfilled"
    /\ loadRun.attempted = Tiers
    /\ loadRun.status["import"] = "failed" /\ loadRun.status["script"] = "failed"
    /\ loadRun.status["fetch"] = "ok"

\* C24 as stated: when all three tiers have failed, the error the load
\* rejects with names the failure reason of each of the three tiers
C24_Original ==
    (loadRun.pc = "done" /\ loadRun.settle = "rejected") =>
        \A t \in TierNames :
            \E i \in 1..Len(loadRun.error.named) : loadRun.error.named[i] = loadRun.reason[t]

\* C24: when all three tiers have failed, the load rejects with one error
\* that names the URL and the failure reason of the last tier, the
\* fetch-and-evaluate one, only; the reasons of all three tiers are in the
\* console diagnostic
C24_LastReason ==
    (loadRun.pc = "done" /\ loadRun.settle = "rejected") =>
        /\ \A t \in TierNames : loadRun.status[t] = "failed" /\ loadRun.reason[t] # NoReason
        /\ loadRun.error.url = loadRun.url
        /\ loadRun.error.named = <<loadRun.reason["fetch"]>>
        /\ loadRun.logged = <<loadRun.reason["import"], loadRun.reason["script"],
                              loadRun.reason["fetch"]>>

\* all three tiers failed, the second one by its timeout
C24_Witness ==
    /\ loadRun.pc = "done" /\ loadRun.settle = "rejected"
    /\ loadRun.reason["script"] = ScriptTimeoutMsg
    /\ loadRun.reason["fetch"] = FetchEvalMsg("HTTP 404: Not Found")
    /\ loadRun.reason["import"] \in ImportReasons

\* C25: whichever of the load event, the error event and the timeout settles
\* the script-tag attempt, the script element and the temporary global are
\* removed when it settles, and the attempt is settled once the timeout has
\* fired
C25_ScriptTagSettles ==
    [][/\ (loadRun.script.settle = "pending" /\ loadRun'.script.settle # "pending") =>
              /\ ~loadRun'.script.inHead
              /\ ~loadRun'.script.globalSet
       /\ loadRun'.script.timerFired => loadRun'.script.settle # "pending"]_vars

\* the attempt was settled by the load event, after the module script had
\* set the temporary global, and the timer fired afterwards
C25_Witness ==
    /\ loadRun.script.settle = "fulfilled"
    /\ loadRun.script.ran
    /\ loadRun.script.timerFired
    /\ ~loadRun.script.inHead /\ ~loadRun.script.globalSet

(***************************************************************************)
(* Execution host                                                          *)
(***************************************************************************)
\* the result of the pass the host started q-th
ResultOf(h, q) ==
    ExecuteSync(h.started[q].code, h.started[q].dependencies.entries, h.started[q].bypass)

\* C26: a pass in flight is not cancelled when the input changes; every
\* pass overwrites the host state when it resolves, so the result the host
\* holds is that of the pass that resolved last, whatever input it was
\* started with
C26_LastResolvedWins ==
    [][/\ \A q \in InFlight(host) :
              \/ q \in InFlight(host')
              \/ /\ host'.heldFrom = q
                 /\ host'.executionResult = ResultOf(host, q)
                 /\ host'.prevCodeRef = host.started[q].code
       /\ Len(host'.resolved) > Len(host.resolved) =>
              /\ host'.heldFrom = host'.resolved[Len(host'.resolved)]
              /\ host'.executionResult = ResultOf(host', host'.heldFrom)]_vars

\* the pass of an older input resolved after the pass of the current
\* input: the host holds the older input's result
C26_Witness ==
    /\ host.resolved = <<2, 1>>
    /\ host.started[1].code = C_EMPTY
    /\ host.started[2].code = C_APP
    /\ host.code = C_APP
    /\ host.heldFrom = 1
    /\ host.executionResult = ResultOf(host, 1)
    /\ host.executionResult # ResultOf(host, 2)

\* the current inputs differ from the inputs the refs record
Differs(h, code, deps) ==
    \/ h.prevCodeRef = Null
    \/ h.prevCodeRef # code
    \/ ManualValues(h.prevDependenciesRef.entries, 1, EmptyMap)
           # ManualValues(deps.entries, 1, EmptyMap)

\* C27: a render starts a pass only when the current batch or dependency
\* set differs from the inputs recorded by the pass that completed last; a
\* render with inputs equal to the recorded ones starts no pass
C27_StartsOnlyOnChange ==
    [][Len(host'.started) > Len(host.started) =>
           Differs(host, host'.code, host'.dependencies)]_vars

\* the same for the renders whose memo was recomputed and whose recorded
\* code is not the empty string
C27_FreshMemo ==
    [][(/\ Len(host'.started) > Len(host.started)
        /\ ~host'.started[Len(host'.started)].bypass
        /\ host.pc = "mounted"
        /\ host.prevCodeRef # C_EMPTY
        /\ (host'.code # host.code \/ host'.dependencies # host.dependencies
            \/ ~host'.dependencies.given)) =>
           Differs(host, host'.code, host'.dependencies)]_vars

(***************************************************************************)
(* Loader caches, scan state and script-tag cleanup                        *)
(***************************************************************************)
\* C32: every loadModule call whose URL host is not allowed by the
\* allowedDomains of its own pass rejects and returns no module, whatever
\* the caches and the in-flight map hold
C32_DomainCheckedFirst ==
    \A p \in Passes :
        \A i \in 1..Len(AllCalls(p)) :
            ~DomainOk(AllCalls(p)[i].url, In(p).allowedDomains) =>
                AllCalls(p)[i].out = "reject"

\* C33: the verdict of the scan depends only on the batch and the pattern
\* list: a pass without bypass is rejected by the scan exactly if a pattern
\* matches a file of its batch, so two passes over the same input get the
\* same verdict
C33_VerdictStable ==
    \A p \in Passes :
        (Started(p) /\ ~pass[p].bypass) =>
            ((pass[p].failedAt = "security") = AnyMatch(In(p)))

\* C38: the cleanup of the script-tag tier runs at most once per attempt,
\* and never on an element that is already removed
C38_CleanupOnce ==
    /\ loadRun.script.cleanups <= 1
    /\ loadRun.script.threw = 0

\* the in-flight map holds exactly the loads that have not settled
InflightIsPending ==
    /\ \A u \in DOMAIN loadingPromises :
           /\ loadingPromises[u] \in 1..Len(loads)
           /\ loads[loadingPromises[u]].url = u
           /\ loads[loadingPromises[u]].status = "pending"
    /\ \A l \in 1..Len(loads) :
           loads[l].status = "pending" =>
               /\ loads[l].url \in DOMAIN loadingPromises
               /\ loadingPromises[loads[l].url] = l

\* no URL in flight is in the internal cache or in the external cache its
\* load was started with
NotCachedInFlight ==
    /\ DOMAIN cache \cap DOMAIN loadingPromises = {}
    /\ \A l \in 1..Len(loads) :
           (loads[l].status = "pending" /\ loads[l].ext # NoExt) =>
               loads[l].url \notin DOMAIN extCache[loads[l].ext]

\* the step in which load l settles as failed leaves its URL in no cache of
\* its call and not in flight
FailedLeavesNothing ==
    \A l \in 1..Len(loads) :
        (loads[l].status = "pending" /\ loads'[l].status = "failed") =>
            /\ loads[l].url \notin DOMAIN cache'
            /\ loads[l].url \notin DOMAIN loadingPromises'
            /\ loads[l].ext # NoExt => loads[l].url \notin DOMAIN extCache'[loads[l].ext]

\* a loadModule call issued in this step joins a load only while that load
\* is pending; after the load has settled the call starts a load of its own
LaterCallStartsFresh ==
    \A p \in Passes :
        \A i \in 1..Len(AllCalls(p)') :
            LET call == AllCalls(p)'[i]
            IN  (i > Len(AllCalls(p)) /\ call.out = "wait" /\ ~call.started) =>
                    /\ call.load \in 1..Len(loads)
                    /\ loads[call.load].status = "pending"

\* C39: a failed load leaves no entry for its URL in the internal cache, its
\* external cache or the in-flight map, and a later call for the URL starts a
\* fresh load; the in-flight entry is removed whenever its load settles; no URL
\* is both in the internal cache and in flight.
C39_FailedLoadLeavesNoEntry ==
    /\ [](InflightIsPending /\ NotCachedInFlight)
    /\ [][FailedLeavesNothing /\ LaterCallStartsFresh]_vars

\* a load failed and a later call for the same URL started a second load
C39_Witness ==
    \E l, m \in 1..Len(loads) :
        /\ l < m
        /\ loads[l].url = loads[m].url
        /\ loads[l].status = "failed"
        /\ \E p \in Passes : \E i \in 1..Len(AllCalls(p)) :
               AllCalls(p)[i].started /\ AllCalls(p)[i].load = m

(***************************************************************************)
(* Import bindings                                                         *)
(***************************************************************************)
\* the local names an import statement declares that are in scope without a
\* declaration: React, the parameter of the generated factory
InScope(st) == IF st.spec = REACT /\ st.id = "React" THEN 1 ELSE 0

\* C31: in a batch whose transformation succeeded, every binding of every
\* import statement with a specifier list (default, named or namespace) has a
\* declaration of its local name in the rewritten code, or is the host
\* framework object already in scope; no declared local name is left without
\* one.
C31_EveryBindingDeclared ==
    \A p \in Passes :
        (pass[p].transformed /\ transformMultipleFiles(In(p).code, pass[p].deps) = Null) =>
            \A f \in 1..Len(In(p).code) :
                \A i \in 1..Len(In(p).code[f].content) :
                    LET st == In(p).code[f].content[i]
                    IN  (st.k = "import" /\ st.nb > 0) =>
                            newNodes(st, DOMAIN pass[p].deps, In(p).code) + InScope(st) = st.nb

(***************************************************************************)
(* The host: bypass re-runs, the loading flag, the held result, onError    *)
(***************************************************************************)
\* the pass a step started, if it started one
NewPass(h, g) == IF Len(g.started) > Len(h.started) THEN {g.started[Len(g.started)]} ELSE {}

\* the host shows the result of a bypass re-run made for other code than
\* the code of its last render
BypassedForOtherCode(h) ==
    /\ ~h.isLoading
    /\ h.heldFrom # 0
    /\ h.started[h.heldFrom].bypass
    /\ h.started[h.heldFrom].code # h.code

\* C34 as stated: a pass runs without the scan only when the continue action
\* started it, for the code of the last render; every other pass is scanned;
\* and the result of a bypass re-run is never shown for different code
C34_Original ==
    /\ [][\A n \in NewPass(host, host') :
              n.bypass => /\ host.executionResult.forbiddenPatterns
                          /\ ~host.isLoading
                          /\ host'.code = host.code
                          /\ n.code = host.code]_vars
    /\ [](~BypassedForOtherCode(host))

\* C34, amended: a pass runs without the scan only when the continue action
\* started it, for the code of the last render, so every pass started because
\* the input changed is scanned; every code the host has rendered has a
\* scanned pass of its own.  (The result of a bypass re-run can be the one
\* shown for different code when passes overlap.)
C34_BypassOnlyByContinue ==
    /\ [][\A n \in NewPass(host, host') :
              n.bypass => /\ host.executionResult.forbiddenPatterns
                          /\ ~host.isLoading
                          /\ host'.code = host.code
                          /\ n.code = host.code]_vars
    /\ [](host.pc = "mounted" =>
              \E q \in 1..Len(host.started) :
                  host.started[q].code = host.code /\ ~host.started[q].bypass)

\* a bypass re-run resolved, the code changed, and the pass started for the
\* new code ran with the scan
C34_Witness ==
    /\ Len(host.started) = 3
    /\ host.started[1].code = C_COOKIE /\ ~host.started[1].bypass
    /\ host.started[2].code = C_COOKIE /\ host.started[2].bypass
    /\ host.started[3].code = C_APP /\ ~host.started[3].bypass
    /\ host.resolved = <<1, 2, 3>>
    /\ host.code = C_APP
    /\ host.heldFrom = 3

\* C36: whenever a pass is in flight isLoading is true
C36_LoadingWhileInFlight == InFlight(host) # {} => host.isLoading

\* C37: forbiddenPatterns implies a non-null error and no component; a
\* component implies no error
C37_ResultShape ==
    /\ host.executionResult.forbiddenPatterns =>
           /\ host.executionResult.error # Null
           /\ host.executionResult.Component = Null
    /\ host.executionResult.Component # Null => host.executionResult.error = Null

\* a render error was reported for the component of a bypass re-run
C37_Witness ==
    /\ host.reported # {}
    /\ host.heldFrom # 0
    /\ host.started[host.heldFrom].bypass
    /\ host.executionResult.error = RenderErrorMsg
    /\ host.executionResult.Component = Null

\* C40: the error of every pass that ended with one has been passed to
\* onError
C40_PassErrorsReported ==
    \A i \in 1..Len(host.resolved) :
        ResultOf(host, host.resolved[i]).error # Null =>
            ResultOf(host, host.resolved[i]).error \in host.reported

\* C35: with fixed inputs the host starts finitely many passes and comes to
\* rest: from some point on isLoading is false and no pass is in flight
C35_Quiesces == <>[](~host.isLoading /\ InFlight(host) = {})

====
